---- MODULE Spec2Model ----
(***************************************************************************)
(* Dataset-construction pipeline of modules/model_trainer.py               *)
(* (train_and_save_model): calendar build, labelling, metadata, mass,      *)
(* temperature and weather joins, finalizer, fit and save, as a            *)
(* step-by-step state machine; and the inference side of                   *)
(* modules/predict.py and modules/generate_report.py; the upload handler   *)
(* of modules/add_predict_file.py; and the chart configurations of app.py, *)
(* modules/ui_components.py and modules/schedule_manager.py.               *)
(*                                                                         *)
(* Time.  A pandas Timestamp is modelled as a whole number of ticks,       *)
(* TicksPerDay ticks to the day; tick 0 of a day is midnight.  A raw CSV   *)
(* date cell is the pair <<day, tick of day>> (the text "YYYY-MM-DD        *)
(* hh:mm"), <<>> for an empty cell, or <<"?">> for a text that is no date  *)
(* (a word such as "unknown").  Column names are transliterated:           *)
(*   Shtabel = "Штабель", VygruzkaNaSklad = "ВыгрузкаНаСклад",             *)
(*   PogruzkaNaSudno = "ПогрузкаНаСудно", NaSklad_tn = "На склад, тн",     *)
(*   NaSudno_tn = "На судно, тн", Marka = "Наим. ЕТСНГ" / "Марка",         *)
(*   DataNachala = "Дата начала", DataOkonch = "Дата оконч.",              *)
(*   DataAkta = "Дата акта", MaxTemp = "Максимальная температура",         *)
(*   Data = "Дата", Data_formirovaniya = "Дата_формирования",              *)
(*   Vozrast_dn = "Возраст_дн", Temp_izmenenie = "Темп_изменение".         *)
(***************************************************************************)
EXTENDS Integers, Sequences, FiniteSets, TLC

VARIABLES
    pc,             \* position inside train_and_save_model
    err,            \* exception that ended the run ("" when none)
    db_fires,       \* fires.csv rows
    db_supplies,    \* supplies.csv rows
    db_temp,        \* temperature.csv rows
    weather_files,  \* the weather_data_*.csv files, each a sequence of rows
    weather,        \* the concatenated weather table
    max_date,       \* the shared end boundary of the calendars
    fires_events,   \* the cleaned fire events the label loop iterates over
    fire_i,         \* index of the next fire event of the label loop
    df_calendar,    \* the feature table
    input_files,    \* which of fires.csv, supplies.csv, temperature.csv exist
    X,              \* the feature matrix of the finalizer
    le,             \* classes_ of the LabelEncoder fitted by the finalizer
    clf,            \* the fitted classifier (<<>> before the fit)
    model_pkl,      \* data/pkl/model.pkl (<<>> when the file is absent)
    encoder_pkl,    \* data/pkl/label_encoder.pkl (<<>> when absent)
    predictor,      \* _predictor_instance of predict.py (<<>> for None)
    schedule,       \* data/schedule_for_prediction.csv (<<>> when absent)
    outcome,        \* what the last call on the inference side ended in
    output_files,   \* the files written to output/
    graphs,         \* st.session_state.graphs: the charts of each section
    next_id,        \* st.session_state.next_id
    show_config,    \* st.session_state.show_config: the open forms
    initialized,    \* "initialized" in st.session_state
    schedule_json   \* the file schedule.json

\* the artifacts on disk
artifacts == <<model_pkl, encoder_pkl>>

\* what the finalizer and the fit leave in memory
fitted == <<X, le, clf>>

\* the inference side
serving == <<predictor, schedule, outcome, output_files>>

\* the chart configurations, in the session and on disk
charts == <<graphs, next_id, show_config, initialized, schedule_json>>

vars == <<pc, err, db_fires, db_supplies, db_temp, weather_files, weather,
          max_date, fires_events, fire_i, df_calendar, input_files, X, le,
          clf, model_pkl, encoder_pkl, predictor, schedule, outcome,
          output_files, graphs, next_id, show_config, initialized,
          schedule_json>>

-----------------------------------------------------------------------------
(* Bounds of the model *)

TicksPerDay == 2
MaxDay == 4
MaxFires == 2
MaxTemps == 2
MaxWeatherRows == 2

-----------------------------------------------------------------------------
(* Missing values, timestamps, series helpers *)

\* NaN / NaT in a numeric, id or parsed date cell
NaN == -1

\* an empty raw CSV cell
Empty == <<>>

\* the missing value of a weather column (a ratio with denominator 0)
NaNRat == <<0, 0>>

Max(S) == CHOOSE x \in S : \A y \in S : y <= x
Min(S) == CHOOSE x \in S : \A y \in S : x <= y

\* pd.to_datetime(cell, errors="coerce") on one raw cell
ToDatetime(cell) ==
    IF Len(cell) = 2 THEN cell[1] * TicksPerDay + cell[2] ELSE NaN

\* a raw cell holding a text that is not a date
Unparseable == <<"?">>

\* pd.to_datetime(column) without errors="coerce" raises on such a text
RaisesOnParse(cells) == Unparseable \in cells

\* Series.dt.normalize(): the midnight of the timestamp's day
Normalize(ts) == ts - (ts % TicksPerDay)

\* Timedelta.days: whole days of a difference of timestamps, rounded down
TimedeltaDays(delta) == delta \div TicksPerDay

\* Series.min() / Series.max() over parsed timestamps, skipping NaT
SeriesMin(S) == IF S \ {NaN} = {} THEN NaN ELSE Min(S \ {NaN})
SeriesMax(S) == IF S \ {NaN} = {} THEN NaN ELSE Max(S \ {NaN})

Range(s) == {s[i] : i \in 1..Len(s)}

RECURSIVE Concat(_)
\* pd.concat(frames, ignore_index=True)
Concat(frames) ==
    IF frames = <<>> THEN <<>> ELSE Head(frames) \o Concat(Tail(frames))

RECURSIVE SortedSeq(_)
\* the sorted group keys of a groupby
SortedSeq(S) ==
    IF S = {} THEN <<>> ELSE <<Min(S)>> \o SortedSeq(S \ {Min(S)})

RECURSIVE SumSeq(_)
SumSeq(s) == IF s = <<>> THEN 0 ELSE Head(s) + SumSeq(Tail(s))

RECURSIVE SortedPairs(_)
\* the sorted group keys of a groupby on two columns
SortedPairs(S) ==
    IF S = {} THEN <<>>
    ELSE LET m == CHOOSE p \in S :
                     \A q \in S : p[1] < q[1] \/ (p[1] = q[1] /\ p[2] <= q[2])
         IN  <<m>> \o SortedPairs(S \ {m})

\* df.merge(right, on=on, how="left"): a row of df once per row of right
\* with the same key, in the order of df, and once with missing values (fill)
\* when right has no such row
LeftMerge(df, right, on, fill) ==
    Concat([k \in 1..Len(df) |->
        LET m == SelectSeq(right, LAMBDA r : \A c \in on : r[c] = df[k][c])
        IN  IF m = <<>> THEN <<df[k] @@ fill>>
            ELSE [j \in 1..Len(m) |->
                    df[k] @@ [c \in DOMAIN m[j] \ on |-> m[j][c]]]])

-----------------------------------------------------------------------------
(* Temporal boundaries, lines 107-126 *)

\* the eight candidate dates of lines 109-117
BoundaryDates(fires, temps, supplies) ==
    LET fire_end == {ToDatetime(r.DataOkonch) : r \in Range(fires)}
        temp_date == {ToDatetime(r.DataAkta) : r \in Range(temps)}
        unload_date == {ToDatetime(r.VygruzkaNaSklad) : r \in Range(supplies)}
        load_date == {ToDatetime(r.PogruzkaNaSudno) : r \in Range(supplies)}
    IN  {SeriesMin(fire_end), SeriesMin(temp_date), SeriesMin(unload_date),
         SeriesMin(load_date), SeriesMax(fire_end), SeriesMax(temp_date),
         SeriesMax(unload_date), SeriesMax(load_date)}

\* max(valid_dates), NaN when there is no valid date
MaxDate(fires, temps, supplies) ==
    SeriesMax(BoundaryDates(fires, temps, supplies))

-----------------------------------------------------------------------------
(* Calendar builder, lines 128-145 *)

\* the groups of db_supplies.groupby("Штабель"): rows without a stockpile id
\* belong to no group
StackKeys(supplies) == {r.Shtabel : r \in Range(supplies)} \ {NaN}

\* groupby("Штабель")["ВыгрузкаНаСклад"].min(): the smallest raw date text of
\* the group, empty cells skipped; date texts order as their timestamps do,
\* and a word orders after every date text
StackStart(supplies, stack) ==
    LET cells == {r.VygruzkaNaSklad :
                    r \in {q \in Range(supplies) : q.Shtabel = stack}} \ {Empty}
        dates == cells \ {Unparseable}
    IN  IF cells = {} THEN Empty
        ELSE IF dates = {} THEN Unparseable
        ELSE CHOOSE c \in dates : \A o \in dates : ToDatetime(c) <= ToDatetime(o)

\* pd.date_range(start, end, freq="D")
DateRange(start, end) ==
    [k \in 1..(IF end >= start THEN (end - start) \div TicksPerDay + 1 ELSE 0)
        |-> start + (k - 1) * TicksPerDay]

\* one stockpile's calendar frame, dates normalized by line 144
StackCalendar(stack, start, end) ==
    LET dates_range == DateRange(start, end)
    IN  [k \in 1..Len(dates_range) |->
            [Data |-> Normalize(dates_range[k]), Shtabel |-> stack]]

\* the stockpiles that get a calendar, in the order of the groupby index
CalendarStacks(supplies) ==
    SelectSeq(SortedSeq(StackKeys(supplies)),
              LAMBDA s : ToDatetime(StackStart(supplies, s)) # NaN)

BuildCalendarFrame(supplies, end) ==
    LET stacks == CalendarStacks(supplies)
    IN  Concat([k \in 1..Len(stacks) |->
            StackCalendar(stacks[k],
                          ToDatetime(StackStart(supplies, stacks[k])), end)])

-----------------------------------------------------------------------------
(* Label assigner, lines 147-166 *)

WindowStartDays == 3
WindowEndDays == 1

\* the start-date texts that survive the dropna of line 149
FiresStartCells(fires) ==
    {r.DataNachala :
        r \in {q \in Range(fires) : q.Shtabel # NaN /\ q.DataNachala # Empty}}

\* db_fires[["Штабель", "Дата начала"]].dropna(), start dates parsed and
\* normalized (lines 149-150)
FiresEvents(fires) ==
    LET kept == SelectSeq(fires,
                    LAMBDA r : r.Shtabel # NaN /\ r.DataNachala # Empty)
    IN  [k \in 1..Len(kept) |->
            [Shtabel |-> kept[k].Shtabel,
             DataNachala |-> Normalize(ToDatetime(kept[k].DataNachala))]]

\* the mask of lines 158-164 on one calendar row
FireMaskSameDay(row, sht, fire_date) ==
    /\ row.Shtabel = sht
    /\ row.Data >= fire_date - WindowStartDays * TicksPerDay
    /\ row.Data <= fire_date

FireMaskAnyStack(row, sht, fire_date) ==
    /\ row.Data >= fire_date - WindowStartDays * TicksPerDay
    /\ row.Data <= fire_date - WindowEndDays * TicksPerDay

FireMask(row, sht, fire_date) ==
    /\ row.Shtabel = sht
    /\ row.Data >= fire_date - WindowStartDays * TicksPerDay
    /\ row.Data <= fire_date - WindowEndDays * TicksPerDay

\* df_calendar.loc[mask, "y_3d"] = 1 for one fire event
ApplyFire(df, ev) ==
    [k \in 1..Len(df) |->
        IF FireMask(df[k], ev.Shtabel, ev.DataNachala)
        THEN [df[k] EXCEPT !.y_3d = 1]
        ELSE df[k]]

-----------------------------------------------------------------------------
(* Metadata join and age, lines 170-180 *)

\* agg "first" of "Наим. ЕТСНГ": the first non-empty grade of the group
FirstMarka(supplies, stack) ==
    LET grp == SelectSeq(supplies,
                   LAMBDA r : r.Shtabel = stack /\ r.Marka # Empty)
    IN  IF grp = <<>> THEN Empty ELSE grp[1].Marka

\* the formation-date texts of stack_info that line 178 parses
FormationCells(supplies) ==
    {StackStart(supplies, st) : st \in StackKeys(supplies)}

\* stack_info, lines 171-178: one row per stockpile of the supplies
StackInfo(supplies) ==
    LET keys == SortedSeq(StackKeys(supplies))
    IN  [k \in 1..Len(keys) |->
            [Shtabel |-> keys[k],
             Data_formirovaniya |-> ToDatetime(StackStart(supplies, keys[k])),
             Marka |-> FirstMarka(supplies, keys[k])]]

\* df_calendar.merge(stack_info, on="Штабель", how="left") and line 180
MergeStackInfo(df, supplies) ==
    LET merged == LeftMerge(df, StackInfo(supplies), {"Shtabel"},
                            [Data_formirovaniya |-> NaN, Marka |-> Empty])
    IN  [k \in 1..Len(merged) |->
            merged[k] @@
            [Vozrast_dn |->
                IF merged[k].Data_formirovaniya = NaN THEN NaN
                ELSE TimedeltaDays(merged[k].Data
                                       - merged[k].Data_formirovaniya)]]

-----------------------------------------------------------------------------
(* Cumulative mass, lines 182-198 *)

\* arrivals: rows with stockpile, inbound date and inbound tonnage all present
Arrivals(supplies) ==
    LET kept == SelectSeq(supplies,
                    LAMBDA r : /\ r.Shtabel # NaN
                               /\ r.VygruzkaNaSklad # Empty
                               /\ r.NaSklad_tn # NaN)
    IN  [k \in 1..Len(kept) |->
            [Shtabel |-> kept[k].Shtabel,
             Data |-> ToDatetime(kept[k].VygruzkaNaSklad),
             delta_mass |-> kept[k].NaSklad_tn]]

DeparturesUnsigned(supplies) ==
    LET kept == SelectSeq(supplies,
                    LAMBDA r : /\ r.Shtabel # NaN
                               /\ r.PogruzkaNaSudno # Empty
                               /\ r.NaSudno_tn # NaN)
    IN  [k \in 1..Len(kept) |->
            [Shtabel |-> kept[k].Shtabel,
             Data |-> ToDatetime(kept[k].PogruzkaNaSudno),
             delta_mass |-> kept[k].NaSudno_tn]]

\* departures: the same for outbound date and tonnage, with the sign turned
Departures(supplies) ==
    LET kept == SelectSeq(supplies,
                    LAMBDA r : /\ r.Shtabel # NaN
                               /\ r.PogruzkaNaSudno # Empty
                               /\ r.NaSudno_tn # NaN)
    IN  [k \in 1..Len(kept) |->
            [Shtabel |-> kept[k].Shtabel,
             Data |-> ToDatetime(kept[k].PogruzkaNaSudno),
             delta_mass |-> 0 - kept[k].NaSudno_tn]]

MassEvents(supplies) == Arrivals(supplies) \o Departures(supplies)

\* the date texts of the arrivals and departures that lines 186 and 191 parse
MassDateCells(supplies) ==
    {r.VygruzkaNaSklad :
        r \in {q \in Range(supplies) : /\ q.Shtabel # NaN
                                        /\ q.VygruzkaNaSklad # Empty
                                        /\ q.NaSklad_tn # NaN}}
    \cup {r.PogruzkaNaSudno :
        r \in {q \in Range(supplies) : /\ q.Shtabel # NaN
                                        /\ q.PogruzkaNaSudno # Empty
                                        /\ q.NaSudno_tn # NaN}}

\* the events of one (stockpile, timestamp) group of mass_daily
MassGroup(supplies, stack, ts) ==
    SelectSeq(MassEvents(supplies),
              LAMBDA e : e.Shtabel = stack /\ e.Data = ts)

\* mass_events taken as mass_daily, without the groupby of line 194
MassDailyUngrouped(supplies) == MassEvents(supplies)

\* mass_daily, line 194: one row per (stockpile, timestamp) of the events,
\* with the sum of the group's deltas
MassDaily(supplies) ==
    LET keys == SortedPairs({<<e.Shtabel, e.Data>> :
                                e \in Range(MassEvents(supplies))})
    IN  [k \in 1..Len(keys) |->
            LET grp == MassGroup(supplies, keys[k][1], keys[k][2])
            IN  [Shtabel |-> keys[k][1], Data |-> keys[k][2],
                 delta_mass |->
                     SumSeq([j \in 1..Len(grp) |-> grp[j].delta_mass])]]

\* the rows of the table up to row i that belong to row i's stockpile
GroupPrefix(df, i) == {j \in 1..i : df[j].Shtabel = df[i].Shtabel}

\* groupby("Штабель")["delta_mass"].cumsum() at row i: the deltas of the rows
\* of the same stockpile, in table order, up to and including row i
GroupCumSum(df, delta, i) ==
    SumSeq([k \in 1..i |->
               IF df[k].Shtabel = df[i].Shtabel THEN delta[k] ELSE 0])

\* lines 196-198: the merge with mass_daily on (stockpile, date), fillna(0)
\* and the cumulative sum per stockpile
AddMass(df, supplies) ==
    LET merged == LeftMerge(df, MassDaily(supplies), {"Shtabel", "Data"},
                            [delta_mass |-> 0])
        delta == [k \in 1..Len(merged) |-> merged[k].delta_mass]
    IN  [i \in 1..Len(merged) |->
            merged[i] @@ [mass |-> GroupCumSum(merged, delta, i)]]

-----------------------------------------------------------------------------
(* Temperature features, lines 200-206 *)

\* db_temp.groupby(["Штабель", "Дата акта"])["Максимальная температура"].max()
\* joined on (stockpile, date): NaN when there is no such group or the group
\* has no value
TempGrouped(temps, stack, ts) ==
    LET vals == {r.MaxTemp :
                   r \in {q \in Range(temps) :
                            /\ q.Shtabel = stack
                            /\ q.Shtabel # NaN
                            /\ ToDatetime(q.DataAkta) = ts
                            /\ ToDatetime(q.DataAkta) # NaN}} \ {NaN}
    IN  IF vals = {} THEN NaN ELSE Max(vals)

\* the date texts of db_temp that line 201 parses
TempDateCells(temps) == {r.DataAkta : r \in Range(temps)}

RECURSIVE LastInGroup(_, _, _, _)
\* the nearest row at or above row k that belongs to row i's stockpile and
\* passes the test (0: there is none)
LastInGroup(df, i, k, test) ==
    IF k = 0 THEN 0
    ELSE IF df[k].Shtabel = df[i].Shtabel /\ test[k] THEN k
    ELSE LastInGroup(df, i, k - 1, test)

\* groupby("Штабель")[col].ffill().fillna(0) at row i of the joined column
FfillGroup(df, joined, i) ==
    LET seen == LastInGroup(df, i, i, [k \in 1..Len(df) |-> joined[k] # NaN])
    IN  IF seen = 0 THEN 0 ELSE joined[seen]

\* the row that groupby("Штабель").diff() subtracts from row i (0: none)
PrevRowAny(df, i) == i - 1

PrevInGroup(df, i) == LastInGroup(df, i, i - 1, [k \in 1..Len(df) |-> TRUE])

\* db_temp_grouped, lines 202-203: one row per (stockpile, timestamp) of the
\* readings
DbTempGrouped(temps) ==
    LET keys == SortedPairs({<<r.Shtabel, ToDatetime(r.DataAkta)>> :
                    r \in {q \in Range(temps) :
                              /\ q.Shtabel # NaN
                              /\ ToDatetime(q.DataAkta) # NaN}})
    IN  [k \in 1..Len(keys) |->
            [Shtabel |-> keys[k][1], Data |-> keys[k][2],
             MaxTemp |-> TempGrouped(temps, keys[k][1], keys[k][2])]]

\* lines 204-206: the merge on (stockpile, date), the forward-fill and the
\* difference per stockpile
AddTemperature(df, temps) ==
    LET merged == LeftMerge(df, DbTempGrouped(temps), {"Shtabel", "Data"},
                            [MaxTemp |-> NaN])
        joined == [k \in 1..Len(merged) |-> merged[k].MaxTemp]
        filled == [k \in 1..Len(merged) |-> FfillGroup(merged, joined, k)]
    IN  [i \in 1..Len(merged) |->
            [merged[i] EXCEPT !.MaxTemp = filled[i]] @@
            [Temp_izmenenie |->
                IF PrevInGroup(merged, i) = 0 THEN 0
                ELSE filled[i] - filled[PrevInGroup(merged, i)]]]

-----------------------------------------------------------------------------
(* Weather load and join, lines 90-105 and 208-212 *)

WeatherCols == {"t", "p", "humidity"}

\* lines 99-101 on one weather file: the date parsed, the three columns kept
ReadWeatherFile(file) ==
    [k \in 1..Len(file) |->
        [date |-> ToDatetime(file[k].date), t |-> file[k].t,
         p |-> file[k].p, humidity |-> file[k].humidity]]

\* a weather value as a ratio; the columns hold ratios once a mean is filled in
ToRat(v) == IF v = NaN THEN NaNRat ELSE <<v, 1>>

RECURSIVE GCD(_, _)
GCD(a, b) == IF b = 0 THEN a ELSE GCD(b, a % b)

Reduce(q) ==
    IF q[2] = 0 THEN NaNRat
    ELSE LET g == GCD(q[1], q[2]) IN <<q[1] \div g, q[2] \div g>>

\* df_calendar.merge(weather, left_on="Дата", right_on="date", how="left"):
\* every calendar row once per weather record of its date, in the order of
\* the weather table, or once with missing weather when there is none
MergeWeather(df, w) ==
    Concat([k \in 1..Len(df) |->
        LET m == SelectSeq(w, LAMBDA r : r.date = df[k].Data)
        IN  IF m = <<>>
            THEN <<df[k] @@ [date |-> NaN, t |-> NaNRat, p |-> NaNRat,
                             humidity |-> NaNRat]>>
            ELSE [j \in 1..Len(m) |->
                    df[k] @@ [date |-> m[j].date, t |-> ToRat(m[j].t),
                              p |-> ToRat(m[j].p),
                              humidity |-> ToRat(m[j].humidity)]]])

RECURSIVE FfillAll(_, _, _)
\* Series.ffill() over the whole table, at row i
FfillAll(df, col, i) ==
    IF i = 0 THEN NaNRat
    ELSE IF df[i][col] # NaNRat THEN df[i][col]
    ELSE FfillAll(df, col, i - 1)

\* Series.mean(): the mean of the present values of the column
ColMean(df, col) ==
    LET idx == SelectSeq([k \in 1..Len(df) |-> k],
                         LAMBDA k : df[k][col] # NaNRat)
    IN  Reduce(<<SumSeq([k \in 1..Len(idx) |-> df[idx[k]][col][1]]), Len(idx)>>)

\* the argument of fillna on line 211
FillValueAfterFfill(df, col) ==
    ColMean([k \in 1..Len(df) |->
                [df[k] EXCEPT ![col] = FfillAll(df, col, k)]], col)

FillValue(df, col) == ColMean(df, col)

\* lines 210-212: forward-fill, fill the rest with the mean, drop "date"
FillWeather(df) ==
    [i \in 1..Len(df) |->
        [f \in DOMAIN df[i] \ {"date"} |->
            IF f \in WeatherCols
            THEN LET filled == FfillAll(df, f, i)
                 IN  IF filled = NaNRat THEN FillValue(df, f) ELSE filled
            ELSE df[i][f]]]

-----------------------------------------------------------------------------
(* Finalizer, lines 214-229 *)

\* day 0 of the model is Monday 2024-01-01
WeekdayOf(ts) == (ts \div TicksPerDay) % 7

\* the day numbers on which the months February..December of 2024 begin
MonthStarts == <<31, 60, 91, 121, 152, 182, 213, 244, 274, 305, 335>>

MonthOf(ts) ==
    1 + Cardinality({m \in 1..Len(MonthStarts) :
                        ts \div TicksPerDay >= MonthStarts[m]})

\* lines 215-216
AddCalendarFeatures(df) ==
    [i \in 1..Len(df) |->
        df[i] @@ [weekday |-> WeekdayOf(df[i].Data),
                  month |-> MonthOf(df[i].Data)]]

\* feature_cols of line 219
FeatureCols ==
    <<"Marka", "Vozrast_dn", "mass", "MaxTemp", "Temp_izmenenie", "weekday",
      "month", "t", "p", "humidity">>

\* the grade texts of the model, in the order Python sorts str values
StrOrder == <<"5", "A", "B", "C", "Z", "nan">>

StrRank(st) == CHOOSE k \in 1..Len(StrOrder) : StrOrder[k] = st

\* Series.astype(str) on one grade cell: a text <<"A">> stays, a number
\* <<"num", "5">> becomes its digits, a missing cell becomes "nan"
AsTypeStr(cell) == IF cell = Empty THEN "nan" ELSE cell[Len(cell)]

\* LabelEncoder.fit: classes_ are the distinct values in sorted order
LabelEncoderFit(values) ==
    SelectSeq(StrOrder, LAMBDA st : st \in Range(values))

\* LabelEncoder.transform on a value of classes_: its position (from 0)
LabelEncoderTransform(classes, v) ==
    Cardinality({k \in 1..Len(classes) : StrRank(classes[k]) < StrRank(v)})

\* LabelEncoder.inverse_transform on one id
LabelEncoderInverse(classes, id) == classes[id + 1]

\* lines 219-229: X with the grade column fitted and encoded
FinalizeX(df) ==
    LET grades == [i \in 1..Len(df) |-> AsTypeStr(df[i].Marka)]
        classes == LabelEncoderFit(grades)
    IN  [i \in 1..Len(df) |->
            [c \in Range(FeatureCols) |->
                IF c = "Marka" THEN LabelEncoderTransform(classes, grades[i])
                ELSE df[i][c]]]

\* the fitted forest is determined by its training data (random_state is
\* fixed); it is modelled as that data
FitClassifier(x, y) == [X |-> x, y |-> y]

-----------------------------------------------------------------------------
(* train_and_save_model, step by step *)

CoreFiles == {"fires.csv", "supplies.csv", "temperature.csv"}

\* the orders in which glob.glob may list n files
Listings(n) ==
    {o \in [1..n -> 1..n] : \A i, j \in 1..n : o[i] = o[j] => i = j}

\* lines 97-104: the files read one after the other in the listed order
ConcatWeather(files, o) ==
    Concat([k \in 1..Len(files) |-> ReadWeatherFile(files[o[k]])])

\* lines 78-82 and 92-95: a required table is not there
MissingInputsCoreOnly(files, listed) == CoreFiles \ files # {}

MissingInputs(files, listed) == CoreFiles \ files # {} \/ listed = <<>>

\* lines 72-105: the existence checks, then the weather files are read in
\* the order glob lists them
LoadData ==
    /\ pc = "start"
    /\ IF MissingInputs(input_files, weather_files)
       THEN /\ pc' = "failed"
            /\ err' = "FileNotFoundError"
            /\ UNCHANGED weather
       ELSE /\ \E o \in Listings(Len(weather_files)) :
                 weather' = ConcatWeather(weather_files, o)
            /\ pc' = "bounds"
            /\ UNCHANGED err
    /\ UNCHANGED <<db_fires, db_supplies, db_temp, weather_files, max_date,
                   fires_events, fire_i, df_calendar>>
    /\ UNCHANGED <<input_files, fitted, artifacts, serving, charts>>

\* lines 107-126
InferBoundaries ==
    /\ pc = "bounds"
    /\ IF MaxDate(db_fires, db_temp, db_supplies) = NaN
       THEN /\ pc' = "failed"
            /\ err' = "ValueError"
            /\ UNCHANGED max_date
       ELSE /\ max_date' = MaxDate(db_fires, db_temp, db_supplies)
            /\ pc' = "calendar"
            /\ UNCHANGED err
    /\ UNCHANGED <<db_fires, db_supplies, db_temp, weather_files, weather,
                   fires_events, fire_i, df_calendar>>
    /\ UNCHANGED <<input_files, fitted, artifacts, serving, charts>>

\* lines 128-150: the calendar, the zero labels, the cleaned fire events
BuildCalendar ==
    /\ pc = "calendar"
    /\ IF CalendarStacks(db_supplies) = <<>>
       THEN /\ pc' = "failed"
            /\ err' = "ValueError"
            /\ UNCHANGED <<df_calendar, fires_events, fire_i>>
       ELSE /\ df_calendar' =
                 LET cal == BuildCalendarFrame(db_supplies, max_date)
                 IN  [k \in 1..Len(cal) |-> cal[k] @@ [y_3d |-> 0]]
            /\ IF RaisesOnParse(FiresStartCells(db_fires))
               THEN /\ pc' = "failed"
                    /\ err' = "DateParseError"
                    /\ UNCHANGED <<fires_events, fire_i>>
               ELSE /\ fires_events' = FiresEvents(db_fires)
                    /\ fire_i' = 1
                    /\ pc' = "label"
                    /\ UNCHANGED err
    /\ UNCHANGED <<db_fires, db_supplies, db_temp, weather_files, weather,
                   max_date>>
    /\ UNCHANGED <<input_files, fitted, artifacts, serving, charts>>

\* one pass of the loop of lines 153-166
LabelFire ==
    /\ pc = "label"
    /\ fire_i <= Len(fires_events)
    /\ df_calendar' = ApplyFire(df_calendar, fires_events[fire_i])
    /\ fire_i' = fire_i + 1
    /\ UNCHANGED <<pc, err, db_fires, db_supplies, db_temp, weather_files,
                   weather, max_date, fires_events>>
    /\ UNCHANGED <<input_files, fitted, artifacts, serving, charts>>

\* lines 170-180, once the label loop has ended
EnrichMetadata ==
    /\ pc = "label"
    /\ fire_i > Len(fires_events)
    /\ IF RaisesOnParse(FormationCells(db_supplies))
       THEN /\ pc' = "failed"
            /\ err' = "DateParseError"
            /\ UNCHANGED df_calendar
       ELSE /\ df_calendar' = MergeStackInfo(df_calendar, db_supplies)
            /\ pc' = "mass"
            /\ UNCHANGED err
    /\ UNCHANGED <<db_fires, db_supplies, db_temp, weather_files,
                   weather, max_date, fires_events, fire_i>>
    /\ UNCHANGED <<input_files, fitted, artifacts, serving, charts>>

\* lines 182-198
AccumulateMass ==
    /\ pc = "mass"
    /\ IF RaisesOnParse(MassDateCells(db_supplies))
       THEN /\ pc' = "failed"
            /\ err' = "DateParseError"
            /\ UNCHANGED df_calendar
       ELSE /\ df_calendar' = AddMass(df_calendar, db_supplies)
            /\ pc' = "temperature"
            /\ UNCHANGED err
    /\ UNCHANGED <<db_fires, db_supplies, db_temp, weather_files,
                   weather, max_date, fires_events, fire_i>>
    /\ UNCHANGED <<input_files, fitted, artifacts, serving, charts>>

\* lines 200-206
PropagateTemperature ==
    /\ pc = "temperature"
    /\ IF RaisesOnParse(TempDateCells(db_temp))
       THEN /\ pc' = "failed"
            /\ err' = "DateParseError"
            /\ UNCHANGED df_calendar
       ELSE /\ df_calendar' = AddTemperature(df_calendar, db_temp)
            /\ pc' = "weather"
            /\ UNCHANGED err
    /\ UNCHANGED <<db_fires, db_supplies, db_temp, weather_files,
                   weather, max_date, fires_events, fire_i>>
    /\ UNCHANGED <<input_files, fitted, artifacts, serving, charts>>

\* line 209
JoinWeather ==
    /\ pc = "weather"
    /\ df_calendar' = MergeWeather(df_calendar, weather)
    /\ pc' = "weather_fill"
    /\ UNCHANGED <<err, db_fires, db_supplies, db_temp, weather_files,
                   weather, max_date, fires_events, fire_i>>
    /\ UNCHANGED <<input_files, fitted, artifacts, serving, charts>>

\* lines 210-212
ImputeWeather ==
    /\ pc = "weather_fill"
    /\ df_calendar' = FillWeather(df_calendar)
    /\ pc' = "finalize"
    /\ UNCHANGED <<err, db_fires, db_supplies, db_temp, weather_files,
                   weather, max_date, fires_events, fire_i>>
    /\ UNCHANGED <<input_files, fitted, artifacts, serving, charts>>

\* the variables of the dataset construction
dataset == <<db_fires, db_supplies, db_temp, weather_files, weather, max_date,
             fires_events, fire_i, input_files>>

\* lines 214-229
Finalize ==
    /\ pc = "finalize"
    /\ df_calendar' = AddCalendarFeatures(df_calendar)
    /\ X' = FinalizeX(df_calendar')
    /\ le' = LabelEncoderFit([i \in 1..Len(df_calendar) |->
                                 AsTypeStr(df_calendar[i].Marka)])
    /\ pc' = "fit"
    /\ UNCHANGED <<err, dataset, charts, clf, artifacts, serving>>

\* lines 231-245
FitModel ==
    /\ pc = "fit"
    /\ clf' = <<FitClassifier(X, [i \in 1..Len(df_calendar) |->
                                     df_calendar[i].y_3d])>>
    /\ pc' = "save_model"
    /\ UNCHANGED <<err, dataset, charts,
                   df_calendar, X, le, artifacts, serving>>

\* lines 248-250
SaveModel ==
    /\ pc = "save_model"
    /\ model_pkl' = clf
    /\ pc' = "save_encoder"
    /\ UNCHANGED <<err, dataset, charts,
                   df_calendar, fitted, encoder_pkl, serving>>

\* line 251
SaveEncoder ==
    /\ pc = "save_encoder"
    /\ encoder_pkl' = <<le>>
    /\ pc' = "done"
    /\ UNCHANGED <<err, dataset, charts,
                   df_calendar, fitted, model_pkl, serving>>

Next ==
    \/ LoadData
    \/ InferBoundaries
    \/ BuildCalendar
    \/ LabelFire
    \/ EnrichMetadata
    \/ AccumulateMass
    \/ PropagateTemperature
    \/ JoinWeather
    \/ ImputeWeather
    \/ Finalize
    \/ FitModel
    \/ SaveModel
    \/ SaveEncoder

-----------------------------------------------------------------------------
(* Chart configurations: app.py, modules/ui_components.py and              *)
(* modules/schedule_manager.py.  A chart configuration is modelled by its  *)
(* id; schedule.json is [kind |-> "absent"], [kind |-> "corrupt"] (a file  *)
(* json.load cannot read) or [kind |-> "json"] with the saved data.        *)

MaxCharts == 2

Sections == {"supplies", "fires", "temperature", "weather"}

NoCharts == [s \in Sections |-> <<>>]
AllClosed == [s \in Sections |-> FALSE]

Absent == [kind |-> "absent"]
Corrupt == [kind |-> "corrupt"]
Saved(data) ==
    [kind |-> "json", graphs |-> data.graphs, next_id |-> data.next_id]

\* load_schedule: the data of the file, the default structure when the file
\* is not there or cannot be read; next_id as app.py line 21 takes it
LoadSchedule(file) ==
    IF file.kind = "json"
    THEN [graphs |-> file.graphs, next_id |-> file.next_id]
    ELSE [graphs |-> NoCharts, next_id |-> 0]

\* save_schedule(data) over the present file: written; left as it was when
\* open() is refused; cut short when the write fails after open() has
\* truncated it.  Every exception is caught inside save_schedule
SaveSchedule(file, data) == {Saved(data), file, Corrupt}

\* next_id left as it is by a creation
NextIdKept(n) == n

\* line 62 and line 144: st.session_state.next_id += 1
NextIdAfterCreate(n) == n + 1

\* no session: st.session_state holds nothing
NoSession ==
    /\ initialized = FALSE
    /\ graphs = NoCharts
    /\ next_id = 0
    /\ show_config = AllClosed

\* app.py lines 13-23: the first script run of a session
InitializeSession ==
    /\ ~initialized
    /\ LET saved == LoadSchedule(schedule_json)
       IN  /\ graphs' = saved.graphs
           /\ next_id' = saved.next_id
    /\ show_config' = AllClosed
    /\ initialized' = TRUE
    /\ UNCHANGED <<pc, err, dataset, df_calendar, fitted, artifacts, serving,
                   schedule_json>>

\* the application is restarted, or the browser session ends: the session
\* state is gone, the file stays
EndSession ==
    /\ initialized
    /\ initialized' = FALSE
    /\ graphs' = NoCharts
    /\ next_id' = 0
    /\ show_config' = AllClosed
    /\ UNCHANGED <<pc, err, dataset, df_calendar, fitted, artifacts, serving,
                   schedule_json>>

\* render_buttons: one of the four buttons opens the form of its category
OpenConfig(category) ==
    /\ initialized
    /\ show_config' = [show_config EXCEPT ![category] = TRUE]
    /\ UNCHANGED <<pc, err, dataset, df_calendar, fitted, artifacts, serving,
                   graphs, next_id, initialized, schedule_json>>

\* the cancel button of an open form, or a form that cannot load its file
CancelConfig(category) ==
    /\ initialized
    /\ show_config[category]
    /\ show_config' = [show_config EXCEPT ![category] = FALSE]
    /\ UNCHANGED <<pc, err, dataset, df_calendar, fitted, artifacts, serving,
                   graphs, next_id, initialized, schedule_json>>

\* the create button of show_standard_config / show_weather_config: the
\* chart is appended with id next_id, next_id grows, and persist_changes
\* saves the new state
CreateChart(category) ==
    /\ initialized
    /\ show_config[category]
    /\ next_id < MaxCharts
    /\ graphs' = [graphs EXCEPT
                     ![category] = Append(@, [id |-> next_id])]
    /\ next_id' = NextIdAfterCreate(next_id)
    /\ show_config' = [show_config EXCEPT ![category] = FALSE]
    /\ schedule_json' \in SaveSchedule(schedule_json,
                                       [graphs |-> graphs',
                                        next_id |-> next_id'])
    /\ UNCHANGED <<pc, err, dataset, df_calendar, fitted, artifacts, serving,
                   initialized>>

\* the delete button of a chart in render_section, lines 193-199
DeleteChart(section_key, cfg) ==
    /\ initialized
    /\ cfg \in Range(graphs[section_key])
    /\ graphs' = [graphs EXCEPT
                     ![section_key] = SelectSeq(@, LAMBDA g : g.id # cfg.id)]
    /\ schedule_json' \in SaveSchedule(schedule_json,
                                       [graphs |-> graphs',
                                        next_id |-> next_id])
    /\ UNCHANGED <<pc, err, dataset, df_calendar, fitted, artifacts, serving,
                   next_id, show_config, initialized>>

NextCharts ==
    \/ InitializeSession
    \/ EndSession
    \/ \E category \in Sections : OpenConfig(category)
    \/ \E category \in Sections : CancelConfig(category)
    \/ \E category \in Sections : CreateChart(category)
    \/ \E section_key \in Sections :
          \E cfg \in Range(graphs[section_key]) :
             DeleteChart(section_key, cfg)

-----------------------------------------------------------------------------
(* Input files the runs start from *)

Supply(s, u, i, l, o, g) ==
    [Shtabel |-> s, VygruzkaNaSklad |-> u, NaSklad_tn |-> i,
     PogruzkaNaSudno |-> l, NaSudno_tn |-> o, Marka |-> g]

Fire(s, b, e) == [Shtabel |-> s, DataNachala |-> b, DataOkonch |-> e]

Temp(s, d, v) == [Shtabel |-> s, DataAkta |-> d, MaxTemp |-> v]

Weather(d, t, p, h) == [date |-> d, t |-> t, p |-> p, humidity |-> h]

SeqsUpTo(S, n) == UNION {[1..k -> S] : k \in 0..n}

LastTick == TicksPerDay - 1

\* every date text of the modelled period, and the midnight ones
DateCells == {<<d, t>> : d \in 0..MaxDay, t \in 0..LastTick}
Midnights == {<<d, 0>> : d \in 0..MaxDay}

BaseSupplies ==
    <<Supply(1, <<0, 0>>, 10, <<MaxDay, 0>>, 4, <<"A">>),
      Supply(2, <<1, 0>>, 6, Empty, NaN, <<"B">>)>>
BaseFires == <<Fire(1, <<3, LastTick>>, <<3, LastTick>>)>>
BaseTemps == <<Temp(1, <<1, 0>>, 5)>>
BaseWeather == <<<<Weather(<<0, 0>>, 1, 2, 3), Weather(<<2, 0>>, 3, 2, NaN)>>>>

\* supplies vary: inbound and outbound dates, tonnages, stockpiles
SupplyInputs ==
    {<<Supply(1, u1, 10, l1, 4, <<"A">>), Supply(s2, u2, i2, Empty, NaN, <<"B">>)>> :
        u1 \in {c \in DateCells : c[1] <= 1},
        l1 \in Midnights \cup {Empty, <<MaxDay, LastTick>>},
        s2 \in {1, 2},
        u2 \in {c \in DateCells : c[1] <= 2} \cup {Empty},
        i2 \in {3, NaN}}

\* the grade cells: two texts, a missing grade, a number
GradeCells == {<<"A">>, <<"B">>, Empty, <<"num", "5">>}

\* supplies with anomalies: inbound dates missing or not a date, an outbound
\* date that is not a date, grades missing or not a text
AnomalySupplyInputs ==
    {<<Supply(1, u1, 10, l1, 4, g1), Supply(s2, u2, 6, Empty, NaN, g2)>> :
        u1 \in {<<0, 0>>, Empty, Unparseable},
        l1 \in {<<MaxDay, 0>>, Unparseable},
        s2 \in {1, 2},
        u2 \in {<<1, 0>>, Empty, Unparseable},
        g1 \in GradeCells,
        g2 \in GradeCells}

\* fire events vary: stockpile, start date, missing fields, order, repeats
FireRows ==
    {Fire(s, b, Empty) :
        s \in {1, 2},
        b \in {<<1, 0>>, <<3, 0>>, <<MaxDay, 0>>, <<MaxDay, LastTick>>}}
        \cup {Fire(NaN, <<3, 0>>, Empty), Fire(1, Empty, Empty),
              Fire(1, Unparseable, Empty), Fire(NaN, Unparseable, Empty),
              Fire(3, <<3, 0>>, Empty)}
FireInputs == SeqsUpTo(FireRows, MaxFires)

\* temperature readings vary: stockpile, date, value
TempRows ==
    {Temp(s, d, v) :
        s \in {1, 2},
        d \in {<<0, 0>>, <<1, LastTick>>, <<2, 0>>},
        v \in {5, 7}}
        \cup {Temp(1, <<2, 0>>, NaN), Temp(NaN, <<2, 0>>, 5),
              Temp(1, Unparseable, 5), Temp(3, <<2, 0>>, 7)}
TempInputs == SeqsUpTo(TempRows, MaxTemps)

\* weather files vary: dates (repeated or not, inside the calendars or after
\* them), missing values, one or two files
WeatherRows ==
    {Weather(d, v[1], v[2], v[3]) :
        d \in {<<0, 0>>, <<0, LastTick>>, <<1, 0>>, <<2, 0>>, <<MaxDay + 1, 0>>},
        v \in {<<1, 2, NaN>>, <<4, NaN, 4>>}}
SecondWeatherFiles == {<<Weather(<<1, 0>>, 4, NaN, 4)>>}
WeatherInputs ==
    {<<>>} \cup
    {<<f>> : f \in SeqsUpTo(WeatherRows, MaxWeatherRows)} \cup
    {<<f, g>> : f \in SeqsUpTo(WeatherRows, MaxWeatherRows),
                g \in SecondWeatherFiles}

\* artifacts left on disk by an earlier training run
PreviousModel == FitClassifier(<<>>, <<>>)
PreviousClasses == <<"A">>

\* no call has been made on the inference side
Idle == [call |-> "none"]

InitServing ==
    /\ predictor = <<>>
    /\ schedule = <<>>
    /\ outcome = Idle
    /\ output_files = {}
    /\ NoSession
    /\ schedule_json = Absent

InitRun ==
    /\ pc = "start"
    /\ err = ""
    /\ weather = <<>>
    /\ max_date = NaN
    /\ fires_events = <<>>
    /\ fire_i = 1
    /\ df_calendar = <<>>
    /\ X = <<>>
    /\ le = <<>>
    /\ clf = <<>>
    /\ InitServing

\* every required table is there and no artifact has been saved yet
InitComplete ==
    /\ input_files = CoreFiles
    /\ model_pkl = <<>>
    /\ encoder_pkl = <<>>

Init ==
    /\ InitRun
    /\ \/ /\ db_supplies \in SupplyInputs \cup AnomalySupplyInputs
          /\ db_fires = BaseFires
          /\ db_temp = BaseTemps
          /\ weather_files = BaseWeather
          /\ InitComplete
       \/ /\ db_supplies = BaseSupplies
          /\ db_fires \in FireInputs
          /\ db_temp = BaseTemps
          /\ weather_files = BaseWeather
          /\ InitComplete
       \/ /\ db_supplies = BaseSupplies
          /\ db_fires = BaseFires
          /\ db_temp \in TempInputs
          /\ weather_files = BaseWeather
          /\ InitComplete
       \/ /\ db_supplies = BaseSupplies
          /\ db_fires = BaseFires
          /\ db_temp = BaseTemps
          /\ weather_files \in WeatherInputs
          /\ InitComplete
       \/ /\ db_supplies = BaseSupplies
          /\ db_fires = BaseFires
          /\ db_temp = BaseTemps
          /\ weather_files \in {<<>>, BaseWeather}
          /\ input_files \in SUBSET CoreFiles
          /\ model_pkl \in {<<>>, <<PreviousModel>>}
          /\ encoder_pkl \in {<<>>, <<PreviousClasses>>}

Spec == Init /\ [][Next]_vars

-----------------------------------------------------------------------------
(* The three-stockpile scenario: day 0 is 2024-01-01, day 31 is 2024-02-01, *)
(* day 69 is 2024-03-10.  Stockpile 1 is stockpile A.                       *)

\* A's supply-in of 100 t on day 0 and supply-out of 40 t on day 31, as one
\* record or as two records in either order
ScenarioSuppliesA ==
    {<<Supply(1, <<0, 0>>, 100, <<31, 0>>, 40, <<"A">>)>>,
     <<Supply(1, <<0, 0>>, 100, Empty, NaN, <<"A">>),
       Supply(1, Empty, NaN, <<31, 0>>, 40, <<"A">>)>>,
     <<Supply(1, Empty, NaN, <<31, 0>>, 40, <<"A">>),
       Supply(1, <<0, 0>>, 100, Empty, NaN, <<"A">>)>>}

\* the two other stockpiles
ScenarioSuppliesOthers ==
    {<<Supply(2, u, 50, Empty, NaN, <<"B">>),
       Supply(3, <<64, 0>>, 70, <<66, 0>>, 20, <<"C">>)>> :
        u \in {<<60, 0>>, <<62, LastTick>>}}

ScenarioSupplies ==
    {a \o o : a \in ScenarioSuppliesA, o \in ScenarioSuppliesOthers}
        \cup {o \o a : a \in ScenarioSuppliesA, o \in ScenarioSuppliesOthers}

\* the one fire, on stockpile A, starting on day 69 and ending no earlier
ScenarioFires ==
    {<<Fire(1, <<69, t>>, e)>> :
        t \in {0, LastTick}, e \in {<<69, LastTick>>, <<70, 0>>}}

ScenarioTemps ==
    {<<>>, <<Temp(1, <<30, 0>>, 40), Temp(2, <<61, 0>>, 35)>>}

ScenarioWeather ==
    {<<<<Weather(<<0, 0>>, 1, 2, 3)>>>>,
     <<<<Weather(<<66, 0>>, 1, 2, 3), Weather(<<66, 0>>, 3, 2, NaN)>>,
       <<Weather(<<67, 0>>, 3, NaN, 4)>>>>}

InitScenario ==
    /\ InitRun
    /\ InitComplete
    /\ db_supplies \in ScenarioSupplies
    /\ db_fires \in ScenarioFires
    /\ db_temp \in ScenarioTemps
    /\ weather_files \in ScenarioWeather

SpecScenario == InitScenario /\ [][Next]_vars

-----------------------------------------------------------------------------
(* Inference, modules/predict.py and modules/generate_report.py.            *)
(* A table is [cols |-> its column names, rows |-> its rows]; a numeric     *)
(* cell is a ratio <<numerator, denominator>>, NaNRat when missing; a raw   *)
(* grade cell is <<"A">> or Empty; probabilities and thresholds are whole   *)
(* percents.                                                                *)

MaxBatch == 2

\* the default of the threshold parameter of add_predictions_to_df, 0.1
DefaultThreshold == 10

\* threshold of run_prediction_and_generate_report, 0.1
ForecastThreshold == 10

\* feature_cols of run_prediction_and_generate_report
ForecastFeatureCols == FeatureCols

\* the probabilities predict_proba may return for a row
ProbaLevels == {9, 10}

\* CoalFirePredictor.__init__: joblib.load of each artifact, None when the
\* file is not there
LoadPredictor(model_file, encoder_file) ==
    [model |-> model_file, encoder |-> encoder_file]

\* missing = [c for c in feature_cols if c not in df.columns]
MissingColsFirstOnly(table, feature_cols) ==
    LET absent == SelectSeq(feature_cols, LAMBDA c : c \notin table.cols)
    IN  IF absent = <<>> THEN <<>> ELSE <<absent[1]>>

MissingCols(table, feature_cols) ==
    SelectSeq(feature_cols, LAMBDA c : c \notin table.cols)

\* x in self.encoder.classes_: a text that is one of the classes; a missing
\* value or a number equals none of the str classes
EncoderKnowsAny(classes, cell) == cell # Empty

EncoderKnows(classes, cell) ==
    /\ Len(cell) = 1
    /\ cell[1] \in Range(classes)

\* self.encoder.transform(df["Марка"]) raises when a value is not a class
TransformRaises(classes, column) ==
    \E k \in 1..Len(column) : ~EncoderKnows(classes, column[k])

\* the fallback of lines 78-82 on one value
EncodeOrMinusOne(classes, cell) ==
    IF EncoderKnows(classes, cell)
    THEN LabelEncoderTransform(classes, cell[1])
    ELSE -1

\* pd.factorize: codes in order of first appearance, -1 for a missing value
Factorize(column) ==
    [k \in 1..Len(column) |->
        IF column[k] = Empty THEN -1
        ELSE LET first == Min({j \in 1..k : column[j] = column[k]})
             IN  Cardinality({column[j] : j \in 1..(first - 1)} \ {Empty})]

\* lines 71-85: the ids of the grade column
EncodeGradeColumn(encoder, column) ==
    IF encoder = <<>> THEN Factorize(column)
    ELSE IF TransformRaises(encoder[1], column)
    THEN [k \in 1..Len(column) |-> EncodeOrMinusOne(encoder[1], column[k])]
    ELSE [k \in 1..Len(column) |->
             LabelEncoderTransform(encoder[1], column[k][1])]

\* X[col].mean(): the mean of the present values, NaN when there is none
BatchMeanOfAll(column) ==
    Reduce(<<SumSeq([k \in 1..Len(column) |-> column[k][1]]), Len(column)>>)

BatchMean(column) ==
    LET kept == SelectSeq(column, LAMBDA v : v # NaNRat)
    IN  Reduce(<<SumSeq([k \in 1..Len(kept) |-> kept[k][1]]), Len(kept)>>)

\* lines 89-91 on one column
FillColumn(column) ==
    IF \E k \in 1..Len(column) : column[k] = NaNRat
    THEN [k \in 1..Len(column) |->
             IF column[k] = NaNRat THEN BatchMean(column) ELSE column[k]]
    ELSE column

\* prepare_features_from_df: the exception it raises ("" for none), the
\* columns the message names, the matrix it returns
PrepareFeaturesFromDf(encoder, table, feature_cols) ==
    LET missing == MissingCols(table, feature_cols)
        n == Len(table.rows)
        ids == EncodeGradeColumn(encoder, [k \in 1..n |-> table.rows[k].Marka])
        df == IF "Marka" \in table.cols
              THEN [k \in 1..n |->
                       [table.rows[k] EXCEPT !.Marka = <<ids[k], 1>>]]
              ELSE table.rows
        filled == [c \in Range(feature_cols) |->
                      FillColumn([k \in 1..n |-> df[k][c]])]
    IN  IF missing # <<>>
        THEN [error |-> "SchemaError", missing |-> missing, X |-> <<>>]
        ELSE [error |-> "", missing |-> <<>>,
              X |-> [k \in 1..n |->
                        [c \in Range(feature_cols) |-> filled[c][k]]]]

\* _ensure_model, and sklearn's refusal of a matrix without rows
PredictErrorUnchecked(pred, x) == IF x = <<>> THEN "EmptyInput" ELSE ""

PredictError(pred, x) ==
    IF pred.model = <<>> THEN "ModelNotLoaded"
    ELSE IF x = <<>> THEN "EmptyInput"
    ELSE ""

\* (proba >= threshold).astype(int)
FirePredStrict(proba, threshold) == IF proba > threshold THEN 1 ELSE 0

FirePred(proba, threshold) == IF proba >= threshold THEN 1 ELSE 0

\* the threshold in force: the caller's, or the default when none is given
ThresholdInForce(given) == IF given = <<>> THEN DefaultThreshold ELSE given[1]

\* lines 113-116 on one row: the row of the copy of the caller's table with
\* the two columns assigned
ResultRowOfFeatures(row, x, proba, threshold) ==
    [c \in DOMAIN x \cup {"fire_proba", "fire_pred"} |->
        IF c = "fire_proba" THEN proba
        ELSE IF c = "fire_pred" THEN FirePred(proba, threshold)
        ELSE x[c]]

ResultRow(row, x, proba, threshold) ==
    [c \in DOMAIN row \cup {"fire_proba", "fire_pred"} |->
        IF c = "fire_proba" THEN proba
        ELSE IF c = "fire_pred" THEN FirePred(proba, threshold)
        ELSE row[c]]

\* add_predictions_to_df, proba being what predict_proba returns
AddPredictionsToDf(pred, table, feature_cols, threshold, proba) ==
    LET prep == PrepareFeaturesFromDf(pred.encoder, table, feature_cols)
    IN  IF prep.error # ""
        THEN [error |-> prep.error, missing |-> prep.missing, df |-> <<>>]
        ELSE IF PredictError(pred, prep.X) # ""
        THEN [error |-> PredictError(pred, prep.X), missing |-> <<>>,
              df |-> <<>>]
        ELSE [error |-> "", missing |-> <<>>,
              df |-> [k \in 1..Len(table.rows) |->
                         ResultRow(table.rows[k], prep.X[k], proba[k],
                                   threshold)]]

\* the probabilities predict_proba may return for a table
Probas(table) == [1..Len(table.rows) -> ProbaLevels]

\* the feature lists the callers ask for
FeatureRequests ==
    {FeatureCols, <<"Marka", "mass">>, <<"mass", "t">>,
     <<"wind", "mass", "t", "rain">>}

\* the thresholds the callers pass: none, or 9 percent
ThresholdRequests == {<<>>, <<9>>}

\* get_predictor(): the singleton, built on first use
GetPredictor ==
    /\ predictor = <<>>
    /\ outcome = Idle
    /\ predictor' = <<LoadPredictor(model_pkl, encoder_pkl)>>
    /\ UNCHANGED <<pc, err, dataset, charts,
                   df_calendar, fitted, artifacts, schedule,
                   outcome, output_files>>

\* a caller holding the table of the schedule file calls
\* prepare_features_from_df; the method works on a copy of the table
CallPrepareFeatures ==
    /\ predictor # <<>>
    /\ schedule # <<>>
    /\ outcome = Idle
    /\ \E fc \in FeatureRequests :
          outcome' = [call |-> "prepare_features_from_df",
                      feature_cols |-> fc] @@
                     PrepareFeaturesFromDf(predictor[1].encoder, schedule[1],
                                           fc)
    /\ UNCHANGED <<pc, err, dataset, charts, df_calendar, fitted, artifacts,
                   predictor, schedule, output_files>>

\* predict_proba_from_features on the prepared matrix of the table
CallPredictProba ==
    /\ predictor # <<>>
    /\ schedule # <<>>
    /\ outcome = Idle
    /\ LET prep == PrepareFeaturesFromDf(predictor[1].encoder, schedule[1],
                                         <<"mass">>)
       IN  /\ prep.error = ""
           /\ \E proba \in Probas(schedule[1]) :
                 outcome' =
                    [call |-> "predict_proba_from_features",
                     error |-> PredictError(predictor[1], prep.X),
                     proba |-> IF PredictError(predictor[1], prep.X) = ""
                               THEN proba ELSE <<>>]
    /\ UNCHANGED <<pc, err, dataset, charts, df_calendar, fitted, artifacts,
                   predictor, schedule, output_files>>

\* predict_from_features on the prepared matrix of the table
CallPredict ==
    /\ predictor # <<>>
    /\ schedule # <<>>
    /\ outcome = Idle
    /\ LET prep == PrepareFeaturesFromDf(predictor[1].encoder, schedule[1],
                                         <<"mass">>)
       IN  /\ prep.error = ""
           /\ \E labels \in [1..Len(schedule[1].rows) -> {0, 1}] :
                 outcome' =
                    [call |-> "predict_from_features",
                     error |-> PredictError(predictor[1], prep.X),
                     labels |-> IF PredictError(predictor[1], prep.X) = ""
                                THEN labels ELSE <<>>]
    /\ UNCHANGED <<pc, err, dataset, charts, df_calendar, fitted, artifacts,
                   predictor, schedule, output_files>>

\* add_predictions_to_df on the table of the schedule file
CallAddPredictions ==
    /\ predictor # <<>>
    /\ schedule # <<>>
    /\ outcome = Idle
    /\ \E fc \in {FeatureCols, <<"mass", "t">>},
          given \in ThresholdRequests,
          proba \in Probas(schedule[1]) :
          outcome' = [call |-> "add_predictions_to_df",
                      feature_cols |-> fc, given |-> given] @@
                     AddPredictionsToDf(predictor[1], schedule[1], fc,
                                        ThresholdInForce(given), proba)
    /\ UNCHANGED <<pc, err, dataset, charts, df_calendar, fitted, artifacts,
                   predictor, schedule, output_files>>

\* the files of a finished forecast
ForecastFiles == {"prediction_results.csv", "prediction_report.txt"}

\* run_prediction_and_generate_report: the error it shows ("" for none);
\* every exception is caught by the handler of lines 131-135
RunForecast ==
    /\ outcome = Idle
    /\ IF schedule = <<>>
       THEN /\ outcome' = [call |-> "run_prediction_and_generate_report",
                           error |-> "ScheduleNotFound", escaped |-> FALSE]
            /\ UNCHANGED <<predictor, output_files>>
       ELSE /\ predictor' = IF predictor = <<>>
                            THEN <<LoadPredictor(model_pkl, encoder_pkl)>>
                            ELSE predictor
            /\ \E proba \in Probas(schedule[1]) :
                 LET res == AddPredictionsToDf(predictor'[1], schedule[1],
                                ForecastFeatureCols, ForecastThreshold, proba)
                 IN  /\ outcome' =
                          [call |-> "run_prediction_and_generate_report",
                           error |-> res.error, escaped |-> FALSE,
                           df |-> res.df, model |-> predictor'[1].model]
                     /\ output_files' = IF res.error = ""
                                        THEN output_files \cup ForecastFiles
                                        ELSE output_files
    /\ UNCHANGED <<pc, err, dataset, charts,
                   df_calendar, fitted, artifacts, schedule>>

\* the columns a schedule file may have
ScheduleCols == Range(FeatureCols) \cup {"Shtabel"}

Table(cols, rows) ==
    [cols |-> cols,
     rows |-> [k \in 1..Len(rows) |-> [c \in cols |-> rows[k][c]]]]

\* PREDICT_REQUIRED_COLUMNS of add_predict_file.py
PredictRequiredColumns ==
    <<"Marka", "Vozrast_dn", "mass", "MaxTemp", "Temp_izmenenie", "weekday",
      "month", "t", "p", "humidity">>

\* an uploaded file that pd.read_csv cannot read
Unreadable == [cols |-> {}, rows |-> <<>>, unreadable |-> TRUE]

\* line 53 with the branch of lines 54-58 taken on a file with one column
\* absent only
UploadMissingOnlyWhenAllAbsent(table) ==
    IF \A c \in Range(PredictRequiredColumns) : c \notin table.cols
    THEN PredictRequiredColumns ELSE <<>>

\* line 53: missing_cols, in the order of PREDICT_REQUIRED_COLUMNS
UploadMissing(table) ==
    SelectSeq(PredictRequiredColumns, LAMBDA c : c \notin table.cols)

\* handle_predict_file_upload with a file in the uploader: read_csv, the
\* column check, and the write of the uploaded bytes to the prediction input
\* file; an exception of read_csv is caught by the handler of lines 68-72
HandlePredictFileUpload(uploaded) ==
    /\ outcome = Idle
    /\ IF "unreadable" \in DOMAIN uploaded
       THEN /\ outcome' = [call |-> "handle_predict_file_upload",
                           uploaded |-> uploaded, error |-> "ReadError",
                           missing |-> <<>>]
            /\ schedule' = schedule
       ELSE IF UploadMissing(uploaded) # <<>>
       THEN /\ outcome' = [call |-> "handle_predict_file_upload",
                           uploaded |-> uploaded, error |-> "MissingColumns",
                           missing |-> UploadMissing(uploaded)]
            /\ schedule' = schedule
       ELSE /\ outcome' = [call |-> "handle_predict_file_upload",
                           uploaded |-> uploaded, error |-> "",
                           missing |-> <<>>]
            /\ schedule' = <<uploaded>>
    /\ UNCHANGED <<pc, err, dataset, charts, df_calendar, fitted, artifacts,
                   predictor, output_files>>

\* the columns of an uploaded file
UploadCols ==
    {ScheduleCols, ScheduleCols \ {"Shtabel"}, ScheduleCols \ {"mass"},
     ScheduleCols \ {"Marka", "t"}, ScheduleCols \ {"humidity"},
     {"Shtabel"}, {}}

UploadRows ==
    <<[c \in ScheduleCols |-> IF c = "Marka" THEN <<"B">> ELSE <<7, 1>>]>>

Uploads == {Table(cols, UploadRows) : cols \in UploadCols} \cup {Unreadable}

NextPredict ==
    \/ \E uploaded \in Uploads : HandlePredictFileUpload(uploaded)
    \/ GetPredictor
    \/ CallPrepareFeatures
    \/ CallPredictProba
    \/ CallPredict
    \/ CallAddPredictions
    \/ RunForecast

BatchRow(g, m, t) ==
    [c \in ScheduleCols |->
        IF c = "Marka" THEN g
        ELSE IF c = "mass" THEN m
        ELSE IF c = "t" THEN t
        ELSE <<1, 1>>]

\* grades known and unknown to the encoders below, and a missing grade
BatchGrades == {<<"A">>, <<"B">>, <<"Z">>, Empty}

BatchRows ==
    {BatchRow(g, <<2, 1>>, <<3, 1>>) : g \in BatchGrades}
        \cup {BatchRow(g, NaNRat, <<3, 1>>) : g \in {<<"A">>, <<"Z">>}}
        \cup {BatchRow(<<"A">>, <<5, 1>>, NaNRat)}

BaseTable ==
    Table(ScheduleCols,
          <<BatchRow(<<"A">>, <<2, 1>>, <<3, 1>>),
            BatchRow(<<"Z">>, NaNRat, <<3, 1>>)>>)

\* the encoders a training run may have saved
SavedEncoders == {<<"A">>, <<"A", "B">>, <<"A", "B", "nan">>, <<"B", "Z">>}

InitPredict ==
    /\ pc = "start"
    /\ err = ""
    /\ db_fires = <<>>
    /\ db_supplies = <<>>
    /\ db_temp = <<>>
    /\ weather_files = <<>>
    /\ weather = <<>>
    /\ max_date = NaN
    /\ fires_events = <<>>
    /\ fire_i = 1
    /\ df_calendar = <<>>
    /\ input_files = {}
    /\ X = <<>>
    /\ le = <<>>
    /\ clf = <<>>
    /\ predictor = <<>>
    /\ outcome = Idle
    /\ output_files = {}
    /\ NoSession
    /\ schedule_json = Absent
    /\ \/ /\ model_pkl \in {<<>>, <<PreviousModel>>}
          /\ encoder_pkl \in {<<>>} \cup {<<e>> : e \in SavedEncoders}
          /\ schedule \in {<<>>, <<BaseTable>>}
       \/ /\ model_pkl = <<PreviousModel>>
          /\ encoder_pkl \in {<<>>, <<<<"A", "B">>>>}
          /\ schedule \in {<<Table(ScheduleCols, r)>> :
                              r \in SeqsUpTo(BatchRows, MaxBatch)}
       \/ /\ model_pkl \in {<<>>, <<PreviousModel>>}
          /\ encoder_pkl = <<<<"A", "B">>>>
          /\ schedule \in {<<Table(cols, BaseTable.rows)>> :
                              cols \in {ScheduleCols \ {"mass"},
                                        ScheduleCols \ {"Marka", "t"},
                                        ScheduleCols \ {"Shtabel"}}}

SpecPredict == InitPredict /\ [][NextPredict]_vars

-----------------------------------------------------------------------------
(* One application process: training runs and forecast requests follow one *)
(* another, and the module global _predictor_instance of predict.py lives  *)
(* as long as the process.                                                 *)

\* the script run of a request is over; the next interaction starts another
Rerun ==
    /\ outcome # Idle
    /\ outcome' = Idle
    /\ UNCHANGED <<pc, err, dataset, charts, df_calendar, fitted, artifacts,
                   predictor, schedule, output_files>>

\* a forecast requested while no training run is under way
ForecastRequest ==
    /\ pc \in {"start", "done", "failed"}
    /\ RunForecast

\* a joblib.dump of lines 250-251 raises (no space, no permission): nothing
\* catches it inside train_and_save_model and the file it was to write is
\* left as it was
SaveInterrupted ==
    /\ pc \in {"save_model", "save_encoder"}
    /\ pc' = "failed"
    /\ err' = "OSError"
    /\ UNCHANGED <<dataset, charts, df_calendar, fitted, artifacts, serving>>

NextProcess ==
    \/ Next
    \/ SaveInterrupted
    \/ ForecastRequest
    \/ Rerun

\* the artifacts a process may find: none, or the pair of an earlier run
PreviousArtifacts ==
    {<<<<>>, <<>>>>, <<<<PreviousModel>>, <<PreviousClasses>>>>}

InitProcess ==
    /\ pc = "start"
    /\ err = ""
    /\ weather = <<>>
    /\ max_date = NaN
    /\ fires_events = <<>>
    /\ fire_i = 1
    /\ df_calendar = <<>>
    /\ X = <<>>
    /\ le = <<>>
    /\ clf = <<>>
    /\ predictor = <<>>
    /\ outcome = Idle
    /\ output_files = {}
    /\ NoSession
    /\ schedule_json = Absent
    /\ input_files = CoreFiles
    /\ db_supplies = BaseSupplies
    /\ db_fires \in {BaseFires, <<Fire(1, Unparseable, Empty)>>}
    /\ db_temp = BaseTemps
    /\ weather_files = BaseWeather
    /\ \E a \in PreviousArtifacts : model_pkl = a[1] /\ encoder_pkl = a[2]
    /\ schedule \in {<<>>, <<BaseTable>>,
                      <<Table(ScheduleCols \ {"mass"}, BaseTable.rows)>>}

SpecProcess == InitProcess /\ [][NextProcess]_vars

-----------------------------------------------------------------------------
(* The chart sessions of one installation, from a first start without a    *)
(* schedule file.                                                          *)

InitCharts ==
    /\ InitRun
    /\ db_fires = <<>>
    /\ db_supplies = <<>>
    /\ db_temp = <<>>
    /\ weather_files = <<>>
    /\ input_files = {}
    /\ model_pkl = <<>>
    /\ encoder_pkl = <<>>

SpecCharts == InitCharts /\ [][NextCharts]_vars

-----------------------------------------------------------------------------
(* Vocabulary of the properties *)

\* the positions after the dataset construction
AfterDataset == {"finalize", "fit", "save_model", "save_encoder", "done"}

AfterCalendar ==
    pc \in {"label", "mass", "temperature", "weather", "weather_fill"}
              \cup AfterDataset
AfterLabels ==
    pc \in {"mass", "temperature", "weather", "weather_fill"} \cup AfterDataset
AfterMass == pc \in {"temperature", "weather", "weather_fill"} \cup AfterDataset
AfterTemperature == pc \in {"weather", "weather_fill"} \cup AfterDataset

\* the calendar day number of a timestamp
DayOf(ts) == ts \div TicksPerDay

Rows == 1..Len(df_calendar)
RowsOf(s) == {i \in Rows : df_calendar[i].Shtabel = s}
RowDay(i) == DayOf(df_calendar[i].Data)

\* a date cell that holds a date, and its day
HasDate(cell) == cell # Empty /\ cell # Unparseable
CellDay(cell) == DayOf(ToDatetime(cell))

\* the days on which stockpile s received coal
InboundDays(s) ==
    {CellDay(r.VygruzkaNaSklad) :
        r \in {q \in Range(db_supplies) :
                 q.Shtabel = s /\ HasDate(q.VygruzkaNaSklad)}}

\* every day named by one of the four sources
FireDays ==
    {CellDay(r.DataNachala) : r \in {q \in Range(db_fires) : HasDate(q.DataNachala)}}
        \cup {CellDay(r.DataOkonch) : r \in {q \in Range(db_fires) : HasDate(q.DataOkonch)}}
TemperatureDays ==
    {CellDay(r.DataAkta) : r \in {q \in Range(db_temp) : HasDate(q.DataAkta)}}
SupplyDays ==
    {CellDay(r.VygruzkaNaSklad) :
        r \in {q \in Range(db_supplies) : HasDate(q.VygruzkaNaSklad)}}
        \cup {CellDay(r.PogruzkaNaSudno) :
                r \in {q \in Range(db_supplies) : HasDate(q.PogruzkaNaSudno)}}
WeatherDays ==
    UNION {{CellDay(r.date) : r \in {q \in Range(f) : HasDate(q.date)}} :
              f \in Range(weather_files)}
SourceDays == FireDays \cup TemperatureDays \cup SupplyDays \cup WeatherDays

-----------------------------------------------------------------------------
(* C1: after a complete run the feature table holds exactly one row per    *)
(* (stockpile, date) pair, also when a date occurs more than once in the   *)
(* weather records.                                                        *)
C1_OneRowPerStockpileDate ==
    pc = "done" =>
        \A i, j \in Rows :
            (/\ df_calendar[i].Shtabel = df_calendar[j].Shtabel
             /\ df_calendar[i].Data = df_calendar[j].Data) => i = j

(* C2: the calendar of every stockpile with a resolvable start date is a   *)
(* contiguous sequence of days, one row per day, from the stockpile's      *)
(* earliest inbound day to the latest day found in any of the four         *)
(* sources; that last day is the same for all stockpiles.                  *)
C2_CalendarSpansToLatestSourceDay ==
    (pc = "label" /\ fire_i = 1) =>
        \A s \in StackKeys(db_supplies) :
            InboundDays(s) # {} =>
                /\ {RowDay(i) : i \in RowsOf(s)} = Min(InboundDays(s))..Max(SourceDays)
                /\ \A i, j \in RowsOf(s) : RowDay(i) = RowDay(j) => i = j

-----------------------------------------------------------------------------
(* C3: a single fire event on stockpile S starting on day D (no other fire *)
(* on S) sets label 1 on exactly the rows of S dated D-3, D-2, D-1 and     *)
(* leaves 0 on every other row of S, day D and day D-4 included.           *)

\* the fire records that name stockpile s
FiresOn(s) == {k \in 1..Len(db_fires) : db_fires[k].Shtabel = s}

SingleFireOn(s) ==
    /\ Cardinality(FiresOn(s)) = 1
    /\ \A k \in FiresOn(s) : HasDate(db_fires[k].DataNachala)

SingleFireDay(s) == CellDay(db_fires[CHOOSE k \in FiresOn(s) : TRUE].DataNachala)

C3_SingleFireMarksThreeDays ==
    AfterLabels =>
        \A s \in StackKeys(db_supplies) :
            SingleFireOn(s) =>
                \A i \in RowsOf(s) :
                    df_calendar[i].y_3d =
                        IF RowDay(i) \in (SingleFireDay(s) - 3)..(SingleFireDay(s) - 1)
                        THEN 1 ELSE 0

\* a stockpile with one fire on day D whose calendar holds D-4, D-1 and D
C3_Witness ==
    /\ AfterLabels
    /\ \E s \in StackKeys(db_supplies) :
          /\ SingleFireOn(s)
          /\ \E i, j, k \in RowsOf(s) :
                /\ RowDay(i) = SingleFireDay(s) - 4 /\ df_calendar[i].y_3d = 0
                /\ RowDay(j) = SingleFireDay(s) - 1 /\ df_calendar[j].y_3d = 1
                /\ RowDay(k) = SingleFireDay(s) /\ df_calendar[k].y_3d = 0

-----------------------------------------------------------------------------
(* C4: for any list of fire events the label of a row (S, d) is 1 iff some *)
(* fire event on S has a start day D with D-3 <= d <= D-1, and 0           *)
(* otherwise; a fire on one stockpile never changes another's labels.      *)

InSomeWindow(s, d) ==
    \E k \in 1..Len(db_fires) :
        /\ db_fires[k].Shtabel = s
        /\ HasDate(db_fires[k].DataNachala)
        /\ CellDay(db_fires[k].DataNachala) - 3 <= d
        /\ d <= CellDay(db_fires[k].DataNachala) - 1

C4_LabelIsUnionOfWindows ==
    AfterLabels =>
        \A i \in Rows :
            /\ df_calendar[i].y_3d \in {0, 1}
            /\ df_calendar[i].y_3d = 1 <=>
                   InSomeWindow(df_calendar[i].Shtabel, RowDay(i))

\* two fires on one stockpile with overlapping windows, a row they both
\* cover, and a row of another stockpile on the same day left at 0
C4_Witness ==
    /\ AfterLabels
    /\ \E a, b \in 1..Len(db_fires) : \E i, j \in Rows :
          /\ a # b
          /\ db_fires[a].Shtabel = db_fires[b].Shtabel
          /\ HasDate(db_fires[a].DataNachala)
          /\ HasDate(db_fires[b].DataNachala)
          /\ CellDay(db_fires[a].DataNachala) < CellDay(db_fires[b].DataNachala)
          /\ df_calendar[i].Shtabel = db_fires[a].Shtabel
          /\ RowDay(i) >= CellDay(db_fires[b].DataNachala) - 3
          /\ RowDay(i) < CellDay(db_fires[a].DataNachala)
          /\ df_calendar[i].y_3d = 1
          /\ df_calendar[j].Shtabel # df_calendar[i].Shtabel
          /\ RowDay(j) = RowDay(i)
          /\ df_calendar[j].y_3d = 0

-----------------------------------------------------------------------------
(* C5: the cumulative mass of every row (S, d) equals the sum of the       *)
(* signed mass deltas (+inbound, -outbound tonnage) of all supply events   *)
(* of S dated on or before day d, whatever the order of the records and    *)
(* however many events fall on one day.                                    *)

\* the signed tonnage a supply record contributes to stockpile s up to day d
SignedUpTo(r, s, d) ==
    (IF /\ r.Shtabel = s /\ HasDate(r.VygruzkaNaSklad) /\ r.NaSklad_tn # NaN
        /\ CellDay(r.VygruzkaNaSklad) <= d
     THEN r.NaSklad_tn ELSE 0)
    - (IF /\ r.Shtabel = s /\ HasDate(r.PogruzkaNaSudno) /\ r.NaSudno_tn # NaN
          /\ CellDay(r.PogruzkaNaSudno) <= d
       THEN r.NaSudno_tn ELSE 0)

C5_MassIsSumOfDeltasToDate ==
    AfterMass =>
        \A i \in Rows :
            df_calendar[i].mass =
                SumSeq([k \in 1..Len(db_supplies) |->
                    SignedUpTo(db_supplies[k], df_calendar[i].Shtabel, RowDay(i))])

-----------------------------------------------------------------------------
(* C6: for every stockpile the age in days is exactly 0 on its first       *)
(* calendar row, never negative, and never decreases from one row of the   *)
(* stockpile to the next.                                                  *)
C6_AgeStartsAtZeroAndGrows ==
    AfterLabels =>
        \A i \in Rows :
            LET before == {j \in RowsOf(df_calendar[i].Shtabel) : j < i}
            IN  /\ df_calendar[i].Vozrast_dn >= 0
                /\ before = {} => df_calendar[i].Vozrast_dn = 0
                /\ before # {} =>
                     df_calendar[Max(before)].Vozrast_dn <= df_calendar[i].Vozrast_dn

-----------------------------------------------------------------------------
(* C7: the max-temperature of every row (S, d) equals the maximum of the   *)
(* readings of S on the most recent day at or before d that has a reading  *)
(* for S, and 0 when S has no reading at or before d.                      *)

\* the readings of stockpile s that carry a value, and their days up to d
ReadingsOf(s) ==
    {r \in Range(db_temp) :
        r.Shtabel = s /\ HasDate(r.DataAkta) /\ r.MaxTemp # NaN}
ReadingDaysUpTo(s, d) ==
    {CellDay(r.DataAkta) : r \in {q \in ReadingsOf(s) : CellDay(q.DataAkta) <= d}}

LastKnownTemperature(s, d) ==
    IF ReadingDaysUpTo(s, d) = {} THEN 0
    ELSE Max({r.MaxTemp :
                r \in {q \in ReadingsOf(s) :
                         CellDay(q.DataAkta) = Max(ReadingDaysUpTo(s, d))}})

C7_TemperatureIsLastKnownReading ==
    AfterTemperature =>
        \A i \in Rows :
            df_calendar[i].MaxTemp =
                LastKnownTemperature(df_calendar[i].Shtabel, RowDay(i))

-----------------------------------------------------------------------------
(* C8: the temperature delta is 0 on a stockpile's first calendar row and  *)
(* on every later row equals the filled max-temperature of the row minus   *)
(* that of the same stockpile's previous day; never across two stockpiles. *)
C8_DeltaIsDayOverDayWithinStockpile ==
    AfterTemperature =>
        \A i \in Rows :
            LET mine == RowsOf(df_calendar[i].Shtabel)
                first_day == Min({RowDay(j) : j \in mine})
                yesterday == {j \in mine : RowDay(j) = RowDay(i) - 1}
            IN  IF RowDay(i) = first_day
                THEN df_calendar[i].Temp_izmenenie = 0
                ELSE /\ yesterday # {}
                     /\ \A j \in yesterday :
                          df_calendar[i].Temp_izmenenie =
                              df_calendar[i].MaxTemp - df_calendar[j].MaxTemp

\* a row whose temperature changed since the previous day, and a stockpile
\* whose first row follows a warmer row of another stockpile in the table
C8_Witness ==
    /\ AfterTemperature
    /\ \E i \in Rows : df_calendar[i].Temp_izmenenie # 0
    /\ \E i \in Rows \ {1} :
          /\ df_calendar[i].Shtabel # df_calendar[i - 1].Shtabel
          /\ df_calendar[i].MaxTemp # df_calendar[i - 1].MaxTemp
          /\ df_calendar[i].Temp_izmenenie = 0

-----------------------------------------------------------------------------
(* C9: the value written into weather fields still missing after the       *)
(* forward-fill.                                                           *)

\* the rows of the joined table whose weather value is still missing after
\* the forward-fill: no row at or above them has a value
StillMissing(df, col) ==
    {i \in 1..Len(df) : \A j \in 1..i : df[j][col] = NaNRat}

\* the forward-filled column at row i: the value of the last row at or
\* above row i that has one
CarriedForward(df, col, i) ==
    LET seen == {j \in 1..i : df[j][col] # NaNRat}
    IN  IF seen = {} THEN NaNRat ELSE df[Max(seen)][col]

\* q is the mean of the present values of a column of joined weather values
IsMeanOf(q, column) ==
    LET present == {k \in 1..Len(column) : column[k] # NaNRat}
        total == SumSeq([k \in 1..Len(column) |->
                     IF column[k] = NaNRat THEN 0 ELSE column[k][1]])
    IN  IF present = {} THEN q = NaNRat
        ELSE q[2] > 0 /\ q[1] * Cardinality(present) = q[2] * total

ImputeStep == pc = "weather_fill" /\ pc' = "finalize"

(* C9 as stated: the fill value is, per weather column, the mean of the    *)
(* column over the joined table after the forward-fill has been applied.   *)
C9_FillIsMeanAfterForwardFill ==
    [][ImputeStep =>
        \A col \in WeatherCols : \A i \in StillMissing(df_calendar, col) :
            IsMeanOf(df_calendar'[i][col],
                     [k \in 1..Len(df_calendar) |->
                         CarriedForward(df_calendar, col, k)])]_vars

(* C9 amended: the fill value is, per weather column, the mean of the      *)
(* column over the joined table before the forward-fill is applied, one    *)
(* value for the whole table.                                              *)
C9_FillIsMeanBeforeForwardFill ==
    [][ImputeStep =>
        \A col \in WeatherCols : \A i \in StillMissing(df_calendar, col) :
            IsMeanOf(df_calendar'[i][col],
                     [k \in 1..Len(df_calendar) |-> df_calendar[k][col]])]_vars

\* a finished table whose first row has no weather value of its own in some
\* column and carries the fill value there, with both stockpiles present
C9_Witness ==
    /\ pc = "done"
    /\ \E col \in WeatherCols :
          /\ \A r \in Range(weather) :
                r.date = df_calendar[1].Data => r[col] = NaN
          /\ df_calendar[1][col] # NaNRat
          /\ df_calendar[1][col][2] > 1
    /\ \E i \in Rows : df_calendar[i].Shtabel # df_calendar[1].Shtabel

-----------------------------------------------------------------------------
(* C10: in the three-stockpile scenario the feature table has rows for A   *)
(* from 2024-01-01 (day 0) onward, mass 100 on every day 0..30, mass 60 on *)
(* every day from day 31 on, and label 1 on exactly days 66, 67 and 68.    *)
C10_ScenarioOfStockpileA ==
    pc = "done" =>
        /\ {RowDay(i) : i \in RowsOf(1)} = 0..Max({RowDay(i) : i \in RowsOf(1)})
        /\ {66, 67, 68} \subseteq {RowDay(i) : i \in RowsOf(1)}
        /\ \A i \in RowsOf(1) :
              /\ df_calendar[i].mass = IF RowDay(i) <= 30 THEN 100 ELSE 60
              /\ df_calendar[i].y_3d = IF RowDay(i) \in {66, 67, 68} THEN 1 ELSE 0

\* the finished scenario table with A's rows of day 30, day 31 and day 67
C10_Witness ==
    /\ pc = "done"
    /\ Cardinality(StackKeys(db_supplies)) = 3
    /\ \E i, j, k \in RowsOf(1) :
          /\ RowDay(i) = 30 /\ df_calendar[i].mass = 100
          /\ RowDay(j) = 31 /\ df_calendar[j].mass = 60
          /\ RowDay(k) = 67 /\ df_calendar[k].y_3d = 1

-----------------------------------------------------------------------------
(* C11: the finished feature table is a function of the input files alone: *)
(* whatever order the directory listing gave the weather files in, the     *)
(* run ends with the same rows, in the same order, with the same values.   *)

RECURSIVE ApplyFires(_, _)
\* the whole label loop
ApplyFires(df, events) ==
    IF events = <<>> THEN df
    ELSE ApplyFires(ApplyFire(df, Head(events)), Tail(events))

\* the feature table a complete run builds from the given tables
FeatureTableOf(fires, supplies, temps, w) ==
    LET cal == BuildCalendarFrame(supplies, MaxDate(fires, temps, supplies))
        labelled == ApplyFires([k \in 1..Len(cal) |-> cal[k] @@ [y_3d |-> 0]],
                               FiresEvents(fires))
        enriched == AddTemperature(
                        AddMass(MergeStackInfo(labelled, supplies), supplies),
                        temps)
    IN  AddCalendarFeatures(FillWeather(MergeWeather(enriched, w)))

\* the feature table a complete run builds from the input files when the
\* weather files are listed in the order o
FeatureTable(o) ==
    FeatureTableOf(db_fires, db_supplies, db_temp,
                   ConcatWeather(weather_files, o))

C11_SameTableForEveryListing ==
    pc = "done" =>
        \A o \in Listings(Len(weather_files)) :
            /\ df_calendar = FeatureTable(o)
            /\ X = FinalizeX(FeatureTable(o))

-----------------------------------------------------------------------------
(* C12: prepare_features_from_df raises the schema error exactly when some *)
(* requested feature column is absent from the table, the error names      *)
(* every absent column, and the caller's table is left as it was.          *)

PrepareCall ==
    outcome = Idle /\ outcome'.call = "prepare_features_from_df"

C12_SchemaErrorNamesAbsentColumns ==
    [][PrepareCall =>
        LET absent == {c \in Range(outcome'.feature_cols) :
                          c \notin schedule[1].cols}
        IN  /\ (outcome'.error = "SchemaError") <=> (absent # {})
            /\ absent # {} => Range(outcome'.missing) = absent
            /\ schedule' = schedule]_vars

\* a call that asked for several columns the table does not have
C12_Witness ==
    /\ outcome.call = "prepare_features_from_df"
    /\ outcome.error = "SchemaError"
    /\ Len(outcome.missing) >= 2
    /\ \E c \in Range(outcome.feature_cols) : c \in schedule[1].cols

-----------------------------------------------------------------------------
(* C13: with a fitted encoder, prepare_features_from_df encodes every      *)
(* grade the encoder knows to an id that decodes back to that grade, and   *)
(* every grade it does not know to -1, raising nothing, also when known    *)
(* and unknown grades stand in the same batch.                             *)

\* a prepare call that asked for the grade column and found every column
GradePrepared ==
    /\ outcome.call = "prepare_features_from_df"
    /\ predictor[1].encoder # <<>>
    /\ "Marka" \in Range(outcome.feature_cols)
    /\ \A c \in Range(outcome.feature_cols) : c \in schedule[1].cols

\* the grade cell is a text that is one of the encoder's classes
KnownGrade(cell) ==
    /\ cell # Empty
    /\ \E j \in 1..Len(predictor[1].encoder[1]) :
          predictor[1].encoder[1][j] = cell[1]

C13_KnownRoundTripUnknownMinusOne ==
    GradePrepared =>
        /\ outcome.error = ""
        /\ \A k \in 1..Len(schedule[1].rows) :
              LET cell == schedule[1].rows[k].Marka
                  id == outcome.X[k].Marka
              IN  IF KnownGrade(cell)
                  THEN /\ id[2] = 1
                       /\ id[1] \in 0..(Len(predictor[1].encoder[1]) - 1)
                       /\ LabelEncoderInverse(predictor[1].encoder[1], id[1])
                             = cell[1]
                  ELSE id = <<-1, 1>>

\* a batch with a known grade, an unknown text and a missing grade
C13_Witness ==
    /\ GradePrepared
    /\ \E i, j \in 1..Len(schedule[1].rows) :
          /\ KnownGrade(schedule[1].rows[i].Marka)
          /\ schedule[1].rows[j].Marka = <<"Z">>
          /\ outcome.X[j].Marka = <<-1, 1>>
          /\ outcome.X[i].Marka[1] >= 0

-----------------------------------------------------------------------------
(* C14: for every grade value of a training row, a missing grade and a     *)
(* grade that is a number included, prepare_features_from_df with the      *)
(* saved encoder gives the id the finalizer gave that row in training.     *)
C14_InferenceIdsEqualTrainingIds ==
    pc = "done" =>
        LET grades == [i \in 1..Len(df_calendar) |-> df_calendar[i].Marka]
            ids == EncodeGradeColumn(encoder_pkl, grades)
        IN  \A i \in 1..Len(df_calendar) : ids[i] = X[i].Marka

-----------------------------------------------------------------------------
(* C15: in the matrix prepare_features_from_df returns, every value that   *)
(* was missing in a requested column is the mean of the non-missing values *)
(* of that column in the batch, and every other value is the one given.    *)

\* a prepare call that found every requested column
Prepared ==
    /\ outcome.call = "prepare_features_from_df"
    /\ outcome.error = ""

MissingCell(cell) == cell = NaNRat \/ cell = Empty

\* q is the mean of the returned values of column c on the rows whose given
\* value was not missing
IsMeanOfGiven(q, c) ==
    LET given == {k \in 1..Len(schedule[1].rows) :
                     ~MissingCell(schedule[1].rows[k][c])}
        total == SumSeq([k \in 1..Len(schedule[1].rows) |->
                     IF k \in given THEN outcome.X[k][c][1] ELSE 0])
    IN  IF given = {} THEN q = NaNRat
        ELSE q[2] > 0 /\ q[1] * Cardinality(given) = q[2] * total

FilledByOwnMean(c) ==
    \A k \in 1..Len(schedule[1].rows) :
        IF MissingCell(schedule[1].rows[k][c])
        THEN IsMeanOfGiven(outcome.X[k][c], c)
        ELSE outcome.X[k][c] = schedule[1].rows[k][c]

-----------------------------------------------------------------------------
(* C16: add_predictions_to_df with threshold t labels a row 1 exactly when *)
(* its probability is at least t, a probability equal to t included; t is  *)
(* 0.1 (10 percent) when the caller gives none.                            *)

Predicted ==
    /\ outcome.call = "add_predictions_to_df"
    /\ outcome.error = ""

C16_LabelIffProbaAtLeastThreshold ==
    Predicted =>
        LET t == IF outcome.given = <<>> THEN 10 ELSE outcome.given[1]
        IN  /\ Len(outcome.df) = Len(schedule[1].rows)
            /\ \A k \in 1..Len(outcome.df) :
                  /\ outcome.df[k].fire_pred \in {0, 1}
                  /\ outcome.df[k].fire_pred = 1
                        <=> outcome.df[k].fire_proba >= t

\* the default threshold, one row exactly at it and one row below it
C16_Witness ==
    /\ Predicted
    /\ outcome.given = <<>>
    /\ \E i, j \in 1..Len(outcome.df) :
          /\ outcome.df[i].fire_proba = 10 /\ outcome.df[i].fire_pred = 1
          /\ outcome.df[j].fire_proba = 9 /\ outcome.df[j].fire_pred = 0

-----------------------------------------------------------------------------
(* C17: with no model artifact on disk the predictor is still built, and   *)
(* calls on it end in errors, never in a prediction; a forecast run shows  *)
(* the error, lets no exception out and writes no file.                    *)

PredictionCalls ==
    {"predict_from_features", "predict_proba_from_features",
     "add_predictions_to_df"}

ForecastCall == "run_prediction_and_generate_report"

(* C17 as stated: every prediction call, and the forecast run on a         *)
(* schedule file that is there, end in the model-unavailable error.        *)
C17_AlwaysModelUnavailable ==
    model_pkl = <<>> =>
        /\ predictor = <<>> => ENABLED GetPredictor \/ outcome # Idle
        /\ outcome.call \in PredictionCalls =>
              outcome.error = "ModelNotLoaded"
        /\ (outcome.call = ForecastCall /\ schedule # <<>>) =>
              /\ outcome.error = "ModelNotLoaded"
              /\ ~outcome.escaped
              /\ output_files = {}

(* C17 amended: the calls on a feature matrix end in the model-unavailable *)
(* error; add_predictions_to_df and the forecast run check their input     *)
(* first, so they end in the schema error (or, for the run, the missing    *)
(* schedule file) when the input is not acceptable and in the              *)
(* model-unavailable error otherwise; the run lets no exception out and    *)
(* writes no file.                                                         *)
C17_ErrorAndNoFilesWithoutModel ==
    model_pkl = <<>> =>
        /\ predictor = <<>> => ENABLED GetPredictor \/ outcome # Idle
        /\ outcome.call \in {"predict_from_features",
                             "predict_proba_from_features"} =>
              outcome.error = "ModelNotLoaded"
        /\ outcome.call = "add_predictions_to_df" =>
              outcome.error =
                 IF \A c \in Range(outcome.feature_cols) :
                        c \in schedule[1].cols
                 THEN "ModelNotLoaded" ELSE "SchemaError"
        /\ outcome.call = ForecastCall =>
              /\ outcome.error =
                    IF schedule = <<>> THEN "ScheduleNotFound"
                    ELSE IF \A c \in Range(FeatureCols) : c \in schedule[1].cols
                    THEN "ModelNotLoaded" ELSE "SchemaError"
              /\ ~outcome.escaped
              /\ output_files = {}

\* a forecast run on a complete schedule file without a model on disk
C17_Witness ==
    /\ model_pkl = <<>>
    /\ predictor # <<>>
    /\ outcome.call = ForecastCall
    /\ schedule # <<>>
    /\ outcome.error = "ModelNotLoaded"
    /\ output_files = {}

-----------------------------------------------------------------------------
(* C18: when fires.csv, supplies.csv or temperature.csv is absent, or no   *)
(* weather file is there, the run ends with the missing-input-file error   *)
(* and both artifacts on disk stay as they were.                           *)

SourceAbsent == input_files # CoreFiles \/ weather_files = <<>>

C18_MissingInputAbortsAndKeepsArtifacts ==
    [][SourceAbsent =>
        /\ pc' = "failed"
        /\ err' = "FileNotFoundError"
        /\ model_pkl' = model_pkl
        /\ encoder_pkl' = encoder_pkl]_vars

\* an aborted run with only temperature.csv absent and the earlier
\* artifacts still on disk
C18_Witness ==
    /\ pc = "failed"
    /\ err = "FileNotFoundError"
    /\ input_files = CoreFiles \ {"temperature.csv"}
    /\ weather_files # <<>>
    /\ model_pkl = <<PreviousModel>>
    /\ encoder_pkl = <<PreviousClasses>>

-----------------------------------------------------------------------------
(* C19: the run fails with the configuration error exactly when no         *)
(* stockpile has a resolvable start date; when some stockpile has one,     *)
(* the stockpiles without one are skipped and the run goes on with the     *)
(* others.                                                                 *)

\* the stockpiles with an inbound date that is a date
Resolvable == {s \in StackKeys(db_supplies) : InboundDays(s) # {}}

\* the only cells that are not dates are inbound dates of stockpiles that
\* have no resolvable start date
OnlyStartDatesUnresolvable ==
    /\ \A r \in Range(db_fires) : r.DataNachala # Unparseable
    /\ \A r \in Range(db_temp) : r.DataAkta # Unparseable
    /\ \A r \in Range(db_supplies) :
          /\ r.PogruzkaNaSudno # Unparseable
          /\ r.VygruzkaNaSklad = Unparseable => r.Shtabel \notin Resolvable

\* the calendar step has been reached by the run
CalendarDecided ==
    /\ pc \notin {"start", "bounds", "calendar"}
    /\ err # "FileNotFoundError"

C19_ConfigErrorIffNoValidStockpile ==
    CalendarDecided =>
        IF Resolvable = {}
        THEN pc = "failed" /\ err = "ValueError"
        ELSE /\ err # "ValueError"
             /\ OnlyStartDatesUnresolvable =>
                   /\ pc # "failed"
                   /\ {df_calendar[i].Shtabel : i \in Rows} = Resolvable

-----------------------------------------------------------------------------
(* C20: a fire event without a stockpile id or without a start date that   *)
(* is a date is skipped: it marks no row, the run does not abort, and the  *)
(* labels are those the other events give.                                 *)

GoodEvent(r) == r.Shtabel # NaN /\ HasDate(r.DataNachala)

\* supplies and temperature readings hold no text that is not a date
OnlyFiresAnomalous ==
    /\ \A r \in Range(db_temp) : r.DataAkta # Unparseable
    /\ \A r \in Range(db_supplies) :
          r.PogruzkaNaSudno # Unparseable /\ r.VygruzkaNaSklad # Unparseable

\* row i lies in the window of a good event of its stockpile
InGoodWindow(i) ==
    \E r \in {q \in Range(db_fires) : GoodEvent(q)} :
        /\ r.Shtabel = df_calendar[i].Shtabel
        /\ RowDay(i) \in (CellDay(r.DataNachala) - 3)..(CellDay(r.DataNachala) - 1)

C20_BadFireEventIsSkipped ==
    (CalendarDecided /\ Resolvable # {} /\ OnlyFiresAnomalous) =>
        /\ pc # "failed"
        /\ AfterLabels =>
              \A i \in Rows : df_calendar[i].y_3d = 1 <=> InGoodWindow(i)

-----------------------------------------------------------------------------
(* C21: a supply record or temperature reading whose date is not a date,   *)
(* and a fire or temperature record naming a stockpile the supplies do not *)
(* have, are skipped: the run completes, and the feature table is the one  *)
(* the input without those records gives.                                  *)

\* the only anomalies are per-record ones: every fire start is a date or
\* empty, and every stockpile with a text that is no date as an inbound date
\* has a resolvable start date all the same
OnlyRecordAnomalies ==
    /\ \A r \in Range(db_fires) : r.DataNachala # Unparseable
    /\ \A r \in Range(db_supplies) :
          r.VygruzkaNaSklad = Unparseable => r.Shtabel \in Resolvable \cup {NaN}

\* the input with the anomalous records left out
KnownStackFires ==
    SelectSeq(db_fires, LAMBDA r : r.Shtabel \in StackKeys(db_supplies))
KnownStackTemps ==
    SelectSeq(db_temp, LAMBDA r : /\ r.Shtabel \in StackKeys(db_supplies)
                                  /\ r.DataAkta # Unparseable)
DatedSupplies ==
    [k \in 1..Len(db_supplies) |->
        [db_supplies[k] EXCEPT
            !.VygruzkaNaSklad = IF @ = Unparseable THEN Empty ELSE @,
            !.PogruzkaNaSudno = IF @ = Unparseable THEN Empty ELSE @]]

C21_RecordAnomaliesAreSkipped ==
    (CalendarDecided /\ Resolvable # {} /\ OnlyRecordAnomalies) =>
        /\ pc # "failed"
        /\ pc = "done" =>
              df_calendar = FeatureTableOf(KnownStackFires, DatedSupplies,
                                           KnownStackTemps, weather)

-----------------------------------------------------------------------------
(* C22: add_predictions_to_df returns the rows of its input in the same    *)
(* order with every original value as given (a missing value stays         *)
(* missing, a grade stays its text), plus exactly the columns fire_proba   *)
(* and fire_pred, and leaves the caller's table as it was.                 *)

AddPredictionsCall ==
    outcome = Idle /\ outcome'.call = "add_predictions_to_df"

C22_ResultIsInputPlusTwoColumns ==
    [][AddPredictionsCall =>
        /\ schedule' = schedule
        /\ outcome'.error = "" =>
              /\ Len(outcome'.df) = Len(schedule[1].rows)
              /\ \A k \in 1..Len(outcome'.df) :
                    /\ DOMAIN outcome'.df[k] =
                          schedule[1].cols \cup {"fire_proba", "fire_pred"}
                    /\ \A c \in schedule[1].cols :
                          outcome'.df[k][c] = schedule[1].rows[k][c]]_vars

\* a result that still holds a missing mass and an unknown grade text,
\* on a call that asked for both columns
C22_Witness ==
    /\ Predicted
    /\ {"Marka", "mass"} \subseteq Range(outcome.feature_cols)
    /\ \E i, j \in 1..Len(outcome.df) :
          /\ outcome.df[i].mass = NaNRat
          /\ outcome.df[j].Marka = <<"Z">>
          /\ outcome.df[j].Shtabel = schedule[1].rows[j].Shtabel

-----------------------------------------------------------------------------
(* C23: the upload handler stores the uploaded file as the prediction      *)
(* input only when none of the ten required columns is missing; otherwise  *)
(* it rejects the upload with a message listing every missing column and   *)
(* the stored prediction input stays as it was.                            *)

UploadCall ==
    outcome = Idle /\ outcome'.call = "handle_predict_file_upload"

AbsentRequired(table) ==
    {c \in Range(PredictRequiredColumns) : c \notin table.cols}

C23_UploadStoredIffNoColumnMissing ==
    [][UploadCall =>
        LET up == outcome'.uploaded
        IN  /\ schedule' # schedule =>
                 /\ schedule' = <<up>>
                 /\ "unreadable" \notin DOMAIN up
                 /\ AbsentRequired(up) = {}
            /\ ("unreadable" \notin DOMAIN up /\ AbsentRequired(up) = {}) =>
                 schedule' = <<up>> /\ outcome'.error = ""
            /\ ("unreadable" \notin DOMAIN up /\ AbsentRequired(up) # {}) =>
                 /\ outcome'.error = "MissingColumns"
                 /\ Range(outcome'.missing) = AbsentRequired(up)
                 /\ schedule' = schedule]_vars

\* an upload lacking two required columns was rejected over a stored file
C23_Witness ==
    /\ outcome.call = "handle_predict_file_upload"
    /\ outcome.error = "MissingColumns"
    /\ Len(outcome.missing) = 2
    /\ schedule = <<BaseTable>>

-----------------------------------------------------------------------------
(* C24: every forecast request predicts with the model artifact that is on *)
(* disk at the time of the request, also after a training run has saved a  *)
(* model since an earlier request of the same process.                     *)

ForecastAnswered ==
    /\ outcome = Idle
    /\ outcome'.call = "run_prediction_and_generate_report"
    /\ outcome'.error \in {"", "ModelNotLoaded"}

C24_ForecastUsesArtifactOnDisk ==
    [][ForecastAnswered => outcome'.model = model_pkl]_vars

-----------------------------------------------------------------------------
(* C25: once a training run has ended, with success or with a failure at   *)
(* any step, the model file and the encoder file are of the same training  *)
(* run, or neither file exists.                                            *)

RunEnded == pc \in {"done", "failed"}

C25_ArtifactsOfOneRun ==
    RunEnded =>
        \/ artifacts \in PreviousArtifacts
        \/ clf # <<>> /\ model_pkl = clf /\ encoder_pkl = <<le>>

-----------------------------------------------------------------------------
(* C26: weather is site-wide in the feature table: any two rows of the     *)
(* same date, whatever their stockpiles, carry the same values of t, p and *)
(* humidity, also on dates without a weather record, which are filled by   *)
(* the forward-fill or the mean.  Stated for weather files that have at    *)
(* most one record per date.                                               *)

OneRecordPerWeatherDate ==
    \A i, j \in 1..Len(weather) : weather[i].date = weather[j].date => i = j

C26_SameDateSameWeather ==
    (pc \in AfterDataset /\ OneRecordPerWeatherDate) =>
        \A i, j \in Rows :
            df_calendar[i].Data = df_calendar[j].Data =>
                \A col \in WeatherCols : df_calendar[i][col] = df_calendar[j][col]

-----------------------------------------------------------------------------
(* C27: the feature matrix returned by prepare_features_from_df has no     *)
(* missing value in any feature column, for every batch that has all the   *)
(* requested columns, also when a column of the batch has no value at all. *)

C27_NoMissingValueInFeatureMatrix ==
    Prepared =>
        \A k \in 1..Len(outcome.X) :
            \A c \in Range(outcome.feature_cols) : outcome.X[k][c] # NaNRat

-----------------------------------------------------------------------------
(* C28: the id prepare_features_from_df gives to a grade value depends     *)
(* only on the value and on the artifacts the predictor loaded, never on   *)
(* the other rows of the batch: any other batch prepared by the same       *)
(* predictor gives the same grade value the same id, also when the model   *)
(* loaded and the encoder did not.                                         *)

OtherBatches ==
    {Table(ScheduleCols, r) : r \in SeqsUpTo(BatchRows, MaxBatch) \ {<<>>}}

C28_GradeIdIndependentOfBatch ==
    (Prepared /\ "Marka" \in Range(outcome.feature_cols)) =>
        \A other \in OtherBatches :
            LET prep == PrepareFeaturesFromDf(predictor[1].encoder, other,
                                              outcome.feature_cols)
            IN  \A i \in 1..Len(outcome.X), j \in 1..Len(other.rows) :
                    schedule[1].rows[i].Marka = other.rows[j].Marka =>
                        outcome.X[i].Marka = prep.X[j].Marka

-----------------------------------------------------------------------------
(* C29: at every enrichment step that depends on row order (cumulative     *)
(* mass, temperature forward-fill and delta) the rows of each stockpile    *)
(* are contiguous in the table and on consecutive days in increasing       *)
(* order, and none of the joins before the weather join (metadata, mass,   *)
(* temperature) adds, removes or reorders calendar rows.                   *)

\* the (stockpile, date) keys of a table, in table order
CalendarKeys(df) == [k \in 1..Len(df) |-> <<df[k].Shtabel, df[k].Data>>]

ContiguousDaily(df) ==
    /\ \A i, j \in 1..Len(df) :
          (i < j /\ df[i].Shtabel = df[j].Shtabel) =>
              \A k \in i..j : df[k].Shtabel = df[i].Shtabel
    /\ \A i \in 1..(Len(df) - 1) :
          df[i].Shtabel = df[i + 1].Shtabel =>
              /\ DayOf(df[i + 1].Data) = DayOf(df[i].Data) + 1
              /\ df[i + 1].Data > df[i].Data

C29_JoinsKeepCalendarRowsInOrder ==
    [][/\ pc' \in {"label", "mass", "temperature", "weather"} =>
             ContiguousDaily(df_calendar')
       /\ (pc \in {"label", "mass", "temperature"} /\ pc' # "failed") =>
             CalendarKeys(df_calendar') = CalendarKeys(df_calendar)]_vars

\* the table after the temperature step, with two stockpiles, and two mass
\* events of one stockpile on one of its calendar days
C29_Witness ==
    /\ pc = "weather"
    /\ \E i, j \in Rows : df_calendar[i].Shtabel # df_calendar[j].Shtabel
    /\ \E a, b \in 1..Len(MassEvents(db_supplies)) : \E i \in Rows :
          /\ a # b
          /\ MassEvents(db_supplies)[a].Shtabel = df_calendar[i].Shtabel
          /\ MassEvents(db_supplies)[b].Shtabel = df_calendar[i].Shtabel
          /\ MassEvents(db_supplies)[a].Data = df_calendar[i].Data
          /\ MassEvents(db_supplies)[b].Data = df_calendar[i].Data

-----------------------------------------------------------------------------
(* C30: after any sequence of chart creations, deletions and restarts      *)
(* (with saves that may fail) the chart configurations of the four         *)
(* sections have pairwise distinct ids, every id is smaller than next_id,  *)
(* and next_id never decreases within a session.                           *)

\* the charts of the session as (section, position) pairs
ChartSlots ==
    UNION {{<<s, k>> : k \in 1..Len(graphs[s])} : s \in Sections}

ChartId(slot) == graphs[slot[1]][slot[2]].id

IdsDistinctAndBelowNextId ==
    /\ \A a, b \in ChartSlots : ChartId(a) = ChartId(b) => a = b
    /\ \A a \in ChartSlots : ChartId(a) < next_id

C30_IdsDistinctBelowNextId ==
    [][/\ initialized' => IdsDistinctAndBelowNextId'
       /\ (initialized /\ initialized') => next_id' >= next_id]_vars

\* a session that holds the chart with id 1 only, after two creations and
\* the deletion of id 0, over a file that still lists both charts: the save
\* of the deletion has failed
C30_Witness ==
    /\ initialized
    /\ next_id = 2
    /\ \E s \in Sections : graphs[s] = <<[id |-> 1]>>
    /\ \A a \in ChartSlots : ChartId(a) = 1
    /\ schedule_json.kind = "json"
    /\ schedule_json.next_id = 2
    /\ \E s \in Sections : Len(schedule_json.graphs[s]) = 2

====
